---------------------------- MODULE Spec2Model ----------------------------
(***************************************************************************)
(* A model of @snowpact/react-rhf-zod-form: schema introspection           *)
(* (utils/zod.ts), default synthesis, empty-value normalisation and field  *)
(* type resolution (utils/form.ts), the component registry and the setup   *)
(* surface (registry/), field dispatch (SnowFormField.tsx), the array      *)
(* field renderers (ArrayFieldRenderer) and SnowForm's first render.       *)
(***************************************************************************)
EXTENDS Integers, Sequences, FiniteSets, TLC

VARIABLES
    \* ---- schema introspection (utils/zod.ts)
    schema,                 \* the Zod schema node under classification
    fieldInfo,              \* getZodFieldInfo(schema), recomputed on every change
    \* ---- registries (registry/*)
    componentRegistry,      \* Map<string, RegisteredComponent>
    submitButtonComponent,  \* RegisteredSubmitButton | null
    formUIComponents,       \* FormUIComponents
    translationFunction,    \* the registered translation function
    onErrorBehavior,        \* OnErrorBehavior | null
    registeredStyles,       \* FormStyles
    isSetup,                \* setupSnowForm has run
    registryLog,            \* log of the Map.set / Map.clear calls made so far
    lastCall,               \* the latest API call or render, with what it produced
    \* ---- one form (utils/form.ts, SnowFormField.tsx)
    schemaShape,            \* field name -> schema node
    overrides,              \* field name -> FieldConfig
    providedValues,         \* caller's defaultValues
    formValues,             \* the form state's values (a JS object), once mounted
    mounted,                \* initializeDefaultValues has run
    formEvent,              \* what the latest form step did
    formSchema,             \* the schema prop of SnowForm (an object, maybe refined)
    \* ---- one array field (ArrayFieldRenderer)
    arrayRenderer,          \* which ArrayFieldRenderer is mounted
    arrayElementInfo,       \* props.arrayElementInfo
    arrayOptions,           \* props.override?.options
    arrayValue,             \* Array.isArray(field.value) ? field.value : []
    inputValue,             \* useState('') of the chips renderer
    offeredOptions,         \* the options prop of the add-control, as rendered
    arrayEvent,             \* what the latest array step did
    \* ---- one SnowForm instance (SnowForm.tsx)
    props,                  \* which of the optional callback props are passed
    isFetchingDefaults,     \* useState(!!fetchDefaultValues)
    hasFetchError,          \* useState(false)
    isMounted,              \* the closure variable of the fetch effect
    fetchPromise,           \* the promise fetchDefaultValues() returned
    unmounted,              \* the instance has been unmounted
    pendingSubmits          \* onSubmit promises that have not settled yet

schemaVars   == <<schema, fieldInfo>>
registryVars == <<componentRegistry, submitButtonComponent, formUIComponents,
                  translationFunction, onErrorBehavior, registeredStyles,
                  isSetup, registryLog, lastCall>>
formVars     == <<schemaShape, overrides, providedValues, formValues, mounted,
                  formEvent>>
arrayVars    == <<arrayRenderer, arrayElementInfo, arrayOptions, arrayValue,
                  inputValue, offeredOptions, arrayEvent>>
lifeVars     == <<props, isFetchingDefaults, hasFetchError, isMounted,
                  fetchPromise, unmounted, pendingSubmits>>
vars         == <<schemaVars, registryVars, formVars, formSchema, arrayVars,
                  lifeVars>>

-----------------------------------------------------------------------------
(* JavaScript values.  A string is its sequence of characters, so that     *)
(* String.prototype.trim and the comparison with '' are computed.          *)

JsUndefined  == [type |-> "undefined"]
JsNull       == [type |-> "null"]
JsString(s)  == [type |-> "string", chars |-> s]
JsNumber(n)  == [type |-> "number", num |-> n]
JsBoolean(b) == [type |-> "boolean", bool |-> b]

EmptyString == JsString(<<>>)
Blank       == JsString(<<" ">>)       \* a whitespace-only string
Text        == JsString(<<"a">>)
Zero        == JsNumber(0)
JsFalse     == JsBoolean(FALSE)

\* An optional property / a nullable reference: {} when absent, {x} when set.
None    == {}
Some(x) == {x}
The(m)  == CHOOSE x \in m : TRUE

\* A JS object is a function from its own keys to values; obj[key] of a
\* missing key is undefined.
EmptyObject == [k \in {} |-> JsUndefined]
Get(obj, key) == IF key \in DOMAIN obj THEN obj[key] ELSE JsUndefined
\* { ...a, ...b }
Spread(a, b) ==
    [k \in (DOMAIN a) \cup (DOMAIN b) |-> IF k \in DOMAIN b THEN b[k] ELSE a[k]]
\* obj[key] = value
Assign(obj, key, value) ==
    [k \in (DOMAIN obj) \cup {key} |-> IF k = key THEN value ELSE obj[k]]

\* String.prototype.trim: strip leading and trailing white space.
RECURSIVE TrimStart(_)
TrimStart(s) ==
    IF s # <<>> /\ Head(s) = " " THEN TrimStart(Tail(s)) ELSE s
RECURSIVE TrimEnd(_)
TrimEnd(s) ==
    IF s # <<>> /\ s[Len(s)] = " " THEN TrimEnd(SubSeq(s, 1, Len(s) - 1)) ELSE s
Trim(s) == TrimEnd(TrimStart(s))

-----------------------------------------------------------------------------
(* Zod schema nodes (zod 3 class names; _def fields as zod lays them out). *)

ZodString(checks) == [kind |-> "ZodString", checks |-> checks]
ZodNumber         == [kind |-> "ZodNumber"]
ZodBoolean        == [kind |-> "ZodBoolean"]
ZodDate           == [kind |-> "ZodDate"]
ZodEnum(values)   == [kind |-> "ZodEnum", values |-> values]
ZodArray(element) == [kind |-> "ZodArray", element |-> element]
ZodObject         == [kind |-> "ZodObject"]
ZodObjectOf(shape) == [kind |-> "ZodObject", shape |-> shape]
ZodLiteral(value) == [kind |-> "ZodLiteral", value |-> value]
ZodOptional(n)    == [kind |-> "ZodOptional", innerType |-> n]
ZodNullable(n)    == [kind |-> "ZodNullable", innerType |-> n]
ZodDefault(n)     == [kind |-> "ZodDefault", innerType |-> n]
ZodEffects(n)     == [kind |-> "ZodEffects", schema |-> n]
ZodUnion(options) == [kind |-> "ZodUnion", options |-> options]

\* utils/zod.ts isOptional, mutated: a literal option no longer counts.
RECURSIVE IsOptionalIgnoringLiterals(_)
IsOptionalIgnoringLiterals(n) ==
    \/ n.kind = "ZodOptional"
    \/ n.kind = "ZodNullable"
    \/ /\ n.kind = "ZodUnion"
       /\ \E i \in 1..Len(n.options) : IsOptionalIgnoringLiterals(n.options[i])

\* utils/zod.ts isOptional
RECURSIVE isOptional(_)
isOptional(n) ==
    IF n.kind = "ZodOptional" THEN TRUE
    ELSE IF n.kind = "ZodNullable" THEN TRUE
    ELSE IF n.kind = "ZodUnion"
         THEN \E i \in 1..Len(n.options) :
                 \/ n.options[i].kind = "ZodLiteral"
                 \/ isOptional(n.options[i])
         ELSE FALSE

\* the while loop of unwrapSchema, mutated: ZodDefault is not peeled
RECURSIVE PeelWithoutDefault(_)
PeelWithoutDefault(current) ==
    IF current.kind \in {"ZodOptional", "ZodNullable", "ZodEffects"}
    THEN IF "innerType" \in DOMAIN current THEN PeelWithoutDefault(current.innerType)
         ELSE IF "schema" \in DOMAIN current THEN PeelWithoutDefault(current.schema)
         ELSE current
    ELSE current

\* the while loop of unwrapSchema: peel Optional/Nullable/Default/Effects
RECURSIVE peel(_)
peel(current) ==
    IF current.kind \in {"ZodOptional", "ZodNullable", "ZodDefault", "ZodEffects"}
    THEN IF "innerType" \in DOMAIN current THEN peel(current.innerType)
         ELSE IF "schema" \in DOMAIN current THEN peel(current.schema)
         ELSE current
    ELSE current

\* utils/zod.ts unwrapSchema; firstNonLiteral is its for-loop over the options
RECURSIVE unwrapSchema(_), firstNonLiteral(_, _, _)
\* the for-loop, mutated: the first option is taken, literal or not
FirstOptionUnwrapped(options, i, current) ==
    IF i > Len(options) THEN current ELSE unwrapSchema(options[i])
\* the for-loop, mutated: the option is returned as written, not unwrapped
RECURSIVE FirstNonLiteralOption(_, _, _)
FirstNonLiteralOption(options, i, current) ==
    IF i > Len(options) THEN current
    ELSE IF unwrapSchema(options[i]).kind # "ZodLiteral" THEN options[i]
         ELSE FirstNonLiteralOption(options, i + 1, current)
firstNonLiteral(options, i, current) ==
    IF i > Len(options) THEN current
    ELSE LET unwrapped == unwrapSchema(options[i])
         IN  IF unwrapped.kind # "ZodLiteral" THEN unwrapped
             ELSE firstNonLiteral(options, i + 1, current)
unwrapSchema(n) ==
    LET current == peel(n)
    IN  IF current.kind = "ZodUnion"
        THEN firstNonLiteral(current.options, 1, current)
        ELSE current

\* utils/zod.ts isEmailString
isEmailString(n) == "email" \in n.checks

\* utils/zod.ts getZodShape: _def.shape() when that is a function (a
\* ZodObject), else schema.shape ?? {} (any other node has no shape)
getZodShape(n) ==
    IF n.kind = "ZodObject" THEN n.shape
    ELSE IF "shape" \in DOMAIN n THEN n.shape
    ELSE EmptyObject

\* getZodFieldInfo, mutated: baseType has no 'unknown' initial value and an
\* unrecognised node reports its class name
ClassifyWithoutUnknown(field) ==
    LET unwrapped == unwrapSchema(field)
        k == unwrapped.kind
    IN  [baseType   |-> CASE k = "ZodString"  -> "string"
                          [] k = "ZodNumber"  -> "number"
                          [] k = "ZodBoolean" -> "boolean"
                          [] k = "ZodEnum"    -> "enum"
                          [] k = "ZodDate"    -> "date"
                          [] k = "ZodArray"   -> "array"
                          [] OTHER            -> k,
         isOptional |-> isOptional(field),
         isEmail    |-> IF k = "ZodString" THEN isEmailString(unwrapped) ELSE FALSE,
         enumValues |-> IF k = "ZodEnum" THEN Some(unwrapped.values) ELSE None]

\* utils/zod.ts getZodFieldInfo
getZodFieldInfo(field) ==
    LET unwrapped == unwrapSchema(field)
        k == unwrapped.kind
    IN  [baseType   |-> CASE k = "ZodString"  -> "string"
                          [] k = "ZodNumber"  -> "number"
                          [] k = "ZodBoolean" -> "boolean"
                          [] k = "ZodEnum"    -> "enum"
                          [] k = "ZodDate"    -> "date"
                          [] k = "ZodArray"   -> "array"
                          [] OTHER            -> "unknown",
         isOptional |-> isOptional(field),
         isEmail    |-> IF k = "ZodString" THEN isEmailString(unwrapped) ELSE FALSE,
         enumValues |-> IF k = "ZodEnum" THEN Some(unwrapped.values) ELSE None]

-----------------------------------------------------------------------------
(* FieldConfig (types: BaseFieldConfig).  A directive that is not set is   *)
(* undefined, hence falsy.                                                 *)

FieldConfig(type, asNull, asUndefined, asZero, render) ==
    [type |-> type, emptyAsNull |-> asNull, emptyAsUndefined |-> asUndefined,
     emptyAsZero |-> asZero, render |-> render]
NoDirective == FieldConfig(None, FALSE, FALSE, FALSE, FALSE)

\* overrides[key], as an optional FieldConfig
OverrideOf(ovs, key) == IF key \in DOMAIN ovs THEN Some(ovs[key]) ELSE None
\* override?.emptyAsNull and friends
emptyAsNull(override)      == override # None /\ The(override).emptyAsNull
emptyAsUndefined(override) == override # None /\ The(override).emptyAsUndefined
emptyAsZero(override)      == override # None /\ The(override).emptyAsZero

\* the default of a number field, mutated: emptyAsZero is forgotten
SynthesizeNumberWithoutZero(info, override) ==
    CASE info.baseType = "string" ->
            IF emptyAsNull(override) THEN JsNull
            ELSE IF emptyAsUndefined(override) THEN JsUndefined
            ELSE EmptyString
      [] info.baseType = "number" ->
            IF emptyAsNull(override) THEN JsNull
            ELSE IF emptyAsUndefined(override) THEN JsUndefined
            ELSE JsNull
      [] info.baseType = "boolean" -> JsFalse
      [] info.baseType = "date"    -> JsNull
      [] OTHER                     -> JsUndefined

\* the default of a string field, mutated: the directives are not consulted
SynthesizeStringAlwaysEmpty(info, override) ==
    CASE info.baseType = "string" -> EmptyString
      [] info.baseType = "number" ->
            IF emptyAsZero(override) THEN Zero
            ELSE IF emptyAsNull(override) THEN JsNull
            ELSE IF emptyAsUndefined(override) THEN JsUndefined
            ELSE JsNull
      [] info.baseType = "boolean" -> JsFalse
      [] info.baseType = "date"    -> JsNull
      [] info.baseType = "enum"    -> JsUndefined
      [] OTHER                     -> JsUndefined

\* utils/form.ts initializeDefaultValues, the switch on fieldInfo.baseType
synthesize(info, override) ==
    CASE info.baseType = "string" ->
            IF emptyAsNull(override) THEN JsNull
            ELSE IF emptyAsUndefined(override) THEN JsUndefined
            ELSE EmptyString
      [] info.baseType = "number" ->
            IF emptyAsZero(override) THEN Zero
            ELSE IF emptyAsNull(override) THEN JsNull
            ELSE IF emptyAsUndefined(override) THEN JsUndefined
            ELSE JsNull
      [] info.baseType = "boolean" -> JsFalse
      [] info.baseType = "date"    -> JsNull
      [] info.baseType = "enum"    -> JsUndefined
      [] OTHER                     -> JsUndefined

\* initializeDefaultValues, mutated: the reduce result is returned without
\* the final overlay of the provided values
InitializeWithoutOverlay(shape, provided, ovs) ==
    [key \in DOMAIN shape |->
        IF Get(provided, key) # JsUndefined
        THEN provided[key]
        ELSE synthesize(getZodFieldInfo(shape[key]), OverrideOf(ovs, key))]

\* utils/form.ts initializeDefaultValues: the reduce over the schema's
\* entries, then { ...defaultValues, ...providedValues }
initializeDefaultValues(shape, provided, ovs) ==
    LET defaultValues ==
            [key \in DOMAIN shape |->
                IF Get(provided, key) # JsUndefined
                THEN provided[key]
                ELSE synthesize(getZodFieldInfo(shape[key]), OverrideOf(ovs, key))]
    IN  Spread(defaultValues, provided)

\* isEmptyString, mutated: the trim is forgotten
IsEmptyStringNoTrim(value) == value = EmptyString

\* value === '' || (typeof value === 'string' && value.trim() === '')
isEmptyString(value) ==
    \/ value = EmptyString
    \/ value.type = "string" /\ Trim(value.chars) = <<>>

\* the normaliser of one value, mutated: emptyAsZero tests !value, so that
\* false and 0 count as empty too
TransformFalsyAsZero(value, override) ==
    IF override = None THEN value
    ELSE IF emptyAsNull(override) /\ isEmptyString(value) THEN JsNull
    ELSE IF emptyAsUndefined(override) /\ isEmptyString(value) THEN JsUndefined
    ELSE IF emptyAsZero(override)
            /\ (value \in {JsNull, JsUndefined, JsFalse, Zero} \/ isEmptyString(value))
         THEN Zero
    ELSE value

\* the normaliser of one value, mutated: emptyAsZero is tested first
TransformZeroFirst(value, override) ==
    IF override = None THEN value
    ELSE IF emptyAsZero(override)
            /\ (value = JsNull \/ value = JsUndefined \/ isEmptyString(value))
         THEN Zero
    ELSE IF emptyAsNull(override) /\ isEmptyString(value) THEN JsNull
    ELSE IF emptyAsUndefined(override) /\ isEmptyString(value) THEN JsUndefined
    ELSE value

\* the normaliser of one value, mutated: the zero branch does not test its
\* own directive
TransformZeroUnguarded(value, override) ==
    IF override = None THEN value
    ELSE IF emptyAsNull(override) /\ isEmptyString(value) THEN JsNull
    ELSE IF emptyAsUndefined(override) /\ isEmptyString(value) THEN JsUndefined
    ELSE IF value = JsNull \/ value = JsUndefined \/ isEmptyString(value)
         THEN Zero
    ELSE value

\* utils/form.ts applyEmptyValueOverrides, the body of its for-loop
transform(value, override) ==
    IF override = None THEN value
    ELSE IF emptyAsNull(override) /\ isEmptyString(value) THEN JsNull
    ELSE IF emptyAsUndefined(override) /\ isEmptyString(value) THEN JsUndefined
    ELSE IF emptyAsZero(override)
            /\ (value = JsNull \/ value = JsUndefined \/ isEmptyString(value))
         THEN Zero
    ELSE value

\* utils/form.ts applyEmptyValueOverrides
applyEmptyValueOverrides(values, ovs) ==
    [key \in DOMAIN values |-> transform(values[key], OverrideOf(ovs, key))]

\* handleChange, mutated: only an empty string is converted, and only by
\* emptyAsNull and emptyAsZero
HandleChangeEmptyStringOnly(override, value) ==
    IF emptyAsNull(override) /\ value = EmptyString THEN JsNull
    ELSE IF emptyAsZero(override)
            /\ (value = EmptyString \/ value = JsNull \/ value = JsUndefined)
    THEN Zero
    ELSE value

\* SnowFormField.tsx handleChange: the value handed to field.onChange
handleChange(override, value) ==
    IF emptyAsNull(override) /\ (value = EmptyString \/ value = JsUndefined)
    THEN JsNull
    ELSE IF emptyAsUndefined(override) /\ (value = EmptyString \/ value = JsNull)
    THEN JsUndefined
    ELSE IF emptyAsZero(override)
            /\ (value = EmptyString \/ value = JsNull \/ value = JsUndefined)
    THEN Zero
    ELSE value

\* resolveFieldType, mutated: the override type is consulted only where
\* the schema gives no answer (the default branch of the switch)
ResolveInferredFirst(info, override) ==
    CASE info.baseType = "string"  -> IF info.isEmail THEN "email" ELSE "text"
      [] info.baseType = "number"  -> "number"
      [] info.baseType = "boolean" -> "checkbox"
      [] info.baseType = "date"    -> "date"
      [] info.baseType = "enum"    -> "select"
      [] OTHER -> IF override # None /\ The(override).type # None
                  THEN The(The(override).type)
                  ELSE "text"

\* utils/form.ts resolveFieldType
resolveFieldType(info, override) ==
    IF override # None /\ The(override).type # None
    THEN The(The(override).type)
    ELSE CASE info.baseType = "string"  -> IF info.isEmail THEN "email" ELSE "text"
           [] info.baseType = "number"  -> "number"
           [] info.baseType = "boolean" -> "checkbox"
           [] info.baseType = "date"    -> "date"
           [] info.baseType = "enum"    -> "select"
           [] OTHER                     -> "text"

-----------------------------------------------------------------------------
(* registry/componentRegistry.tsx.  A components object is the sequence of *)
(* its entries <<type, component>>, in Object.entries order; a component   *)
(* is None where the Partial<> leaves the property undefined.              *)

LogSet(type, component) == [op |-> "set", type |-> type, component |-> component]
LogClear                == [op |-> "clear"]

\* registerComponents, mutated: a type that is already registered is kept
RECURSIVE RegisterKeepingFirst(_, _)
RegisterKeepingFirst(registry, components) ==
    IF components = <<>> THEN registry
    ELSE LET type      == Head(components)[1]
             component == Head(components)[2]
         IN  RegisterKeepingFirst(
                 IF component # None /\ type \notin DOMAIN registry
                 THEN Assign(registry, type, The(component))
                 ELSE registry,
                 Tail(components))

\* registerComponents: componentRegistry.set for every defined entry
RECURSIVE registerComponents(_, _)
registerComponents(registry, components) ==
    IF components = <<>> THEN registry
    ELSE LET type      == Head(components)[1]
             component == Head(components)[2]
         IN  registerComponents(
                 IF component # None
                 THEN Assign(registry, type, The(component))
                 ELSE registry,
                 Tail(components))

\* the Map.set calls registerComponents makes, in order
RECURSIVE SetCalls(_)
SetCalls(components) ==
    IF components = <<>> THEN <<>>
    ELSE (IF Head(components)[2] # None
          THEN <<LogSet(Head(components)[1], The(Head(components)[2]))>>
          ELSE <<>>) \o SetCalls(Tail(components))

\* getRegisteredComponent: Map.get, undefined when there is no entry
getRegisteredComponent(registry, type) ==
    IF type \in DOMAIN registry THEN Some(registry[type]) ELSE None
\* hasRegisteredComponent
hasRegisteredComponent(registry, type) == type \in DOMAIN registry
\* getRegisteredTypes, as the set of the keys it lists
getRegisteredTypes(registry) == DOMAIN registry

\* SnowFormField.tsx getDefaultComponent
getDefaultComponent(type) ==
    CASE type = "text"           -> Some("DefaultInput")
      [] type = "email"          -> Some("EmailInput")
      [] type = "password"       -> Some("PasswordInput")
      [] type = "time"           -> Some("TimeInput")
      [] type = "datetime-local" -> Some("DateTimeLocalInput")
      [] type = "tel"            -> Some("TelInput")
      [] type = "url"            -> Some("UrlInput")
      [] type = "color"          -> Some("ColorInput")
      [] type = "file"           -> Some("FileInput")
      [] type = "textarea"       -> Some("DefaultTextarea")
      [] type = "select"         -> Some("DefaultSelect")
      [] type = "checkbox"       -> Some("DefaultCheckbox")
      [] type = "radio"          -> Some("DefaultRadio")
      [] type = "number"         -> Some("DefaultNumberInput")
      [] type = "date"           -> Some("DefaultDatePicker")
      [] type = "hidden"         -> None
      [] OTHER                   -> None

\* SnowFormField.tsx SnowFormField: what one render of a field returns and
\* what it writes with console.warn
SnowFormField(info, override, registry) ==
    LET fieldType == resolveFieldType(info, override)
        RegisteredComponent == getRegisteredComponent(registry, fieldType)
        DefaultComponent    == getDefaultComponent(fieldType)
        Component == IF RegisteredComponent # None THEN RegisteredComponent
                     ELSE DefaultComponent
    IN  IF fieldType = "hidden"
        THEN [fieldType |-> fieldType, element |-> "input-hidden",
              component |-> None, warned |-> None]
        ELSE IF override # None /\ The(override).render
        THEN [fieldType |-> fieldType, element |-> "custom-render",
              component |-> None, warned |-> None]
        ELSE IF Component = None
        THEN [fieldType |-> fieldType, element |-> "null",
              component |-> None, warned |-> Some(fieldType)]
        ELSE [fieldType |-> fieldType, element |-> "control",
              component |-> Component, warned |-> None]

-----------------------------------------------------------------------------
(* ArrayFieldRenderer.  Two renderers are in the repository: the list      *)
(* renderer (ArrayFieldRenderer.tsx: one control per element, an add and a *)
(* remove button) and the chips renderer (one add-control, a chip per      *)
(* element).  An element is a JS value; an enum value is the string of     *)
(* one token.                                                              *)

JsEnumValue(v) == JsString(<<v>>)

\* Number(trimmed) of a string of decimal digits; None stands for NaN
DigitChars == <<"0", "1", "2", "3", "4", "5", "6", "7", "8", "9">>
IsDigit(c) == \E i \in 1..Len(DigitChars) : DigitChars[i] = c
DigitValue(c) == (CHOOSE i \in 1..Len(DigitChars) : DigitChars[i] = c) - 1
RECURSIVE DigitsValue(_)
DigitsValue(chars) ==
    IF chars = <<>> THEN 0
    ELSE 10 * DigitsValue(SubSeq(chars, 1, Len(chars) - 1))
         + DigitValue(chars[Len(chars)])
ToNumber(chars) ==
    IF \A i \in 1..Len(chars) : IsDigit(chars[i])
    THEN Some(DigitsValue(chars)) ELSE None

\* String(val ?? '')
RECURSIVE NumberToChars(_)
NumberToChars(n) ==
    IF n < 10 THEN <<DigitChars[n + 1]>>
    ELSE NumberToChars(n \div 10) \o <<DigitChars[(n % 10) + 1]>>
ToStringOrEmpty(val) ==
    CASE val \in {JsNull, JsUndefined} -> <<>>
      [] val.type = "string" -> val.chars
      [] val.type = "number" -> NumberToChars(val.num)
      [] val.type = "boolean" -> IF val.bool THEN <<"true">> ELSE <<"false">>

\* getDefaultValue, mutated: the defaults of a standalone field are used
GetDefaultValueOfField(info) ==
    CASE info.baseType = "string"  -> EmptyString
      [] info.baseType = "number"  -> JsNull
      [] info.baseType = "boolean" -> JsFalse
      [] OTHER                     -> JsUndefined

\* ArrayFieldRenderer.tsx getDefaultValue
getDefaultValue(info) ==
    CASE info.baseType = "string"  -> EmptyString
      [] info.baseType = "number"  -> Zero
      [] info.baseType = "boolean" -> JsFalse
      [] info.baseType = "enum"    ->
            IF info.enumValues # None /\ Len(The(info.enumValues)) > 0
            THEN JsEnumValue(The(info.enumValues)[1]) ELSE EmptyString
      [] OTHER                     -> EmptyString

\* handleRemove, mutated: the element is filtered out by value
RemoveEqualValues(value, index) ==
    SelectSeq(value, LAMBDA v : v # value[index])

\* arrayValue.filter((_, i) => i !== index); indices count from 1 here
handleRemove(value, index) ==
    [i \in 1..(Len(value) - (IF index \in 1..Len(value) THEN 1 ELSE 0)) |->
        IF i < index THEN value[i] ELSE value[i + 1]]

\* override?.options ?? arrayElementInfo.enumValues?.map(...) ?? []
allOptions(info, options) ==
    IF options # None THEN The(options)
    ELSE IF info.enumValues # None
    THEN [i \in 1..Len(The(info.enumValues)) |->
            [label |-> The(info.enumValues)[i],
             value |-> JsEnumValue(The(info.enumValues)[i])]]
    ELSE <<>>

\* availableOptions, mutated: an option is filtered out when its label, not
\* its value, is in arrayValue
AvailableOptionsByLabel(info, options, value) ==
    IF info.baseType = "enum"
    THEN SelectSeq(allOptions(info, options),
                   LAMBDA opt : \A i \in 1..Len(value) :
                                   value[i] # JsEnumValue(opt.label))
    ELSE <<>>

\* availableOptions, mutated: the selected options are not filtered out
AvailableOptionsUnfiltered(info, options, value) ==
    IF info.baseType = "enum" THEN allOptions(info, options) ELSE <<>>

\* availableOptions: for enum, the options whose value is not in arrayValue
availableOptions(info, options, value) ==
    IF info.baseType = "enum"
    THEN SelectSeq(allOptions(info, options),
                   LAMBDA opt : \A i \in 1..Len(value) : value[i] # opt.value)
    ELSE <<>>

\* handleAdd of the chips renderer: the new <<arrayValue, inputValue>>
handleAdd(info, value, input) ==
    LET trimmed == Trim(input)
    IN  IF trimmed = <<>> THEN <<value, input>>
        ELSE IF info.baseType = "number"
        THEN IF ToNumber(trimmed) # None
             THEN <<Append(value, JsNumber(The(ToNumber(trimmed)))), <<>>>>
             ELSE <<value, input>>
        ELSE <<Append(value, JsString(trimmed)), <<>>>>

-----------------------------------------------------------------------------
(* Bounds and the inputs the model draws from.                             *)

MaxLog   == 3      \* Map.set / Map.clear calls followed in one behaviour
MaxDepth == 3      \* wrapper / union layers put around a leaf schema
MaxItems == 3      \* elements an array value grows to
MaxPending == 1    \* onSubmit promises in flight at one time

Components      == {"InputA", "InputB"}
RegisteredTypes == {"text", "color"}            \* the types callers register
\* the types an override asks for: built-in ones and a custom one
OverrideTypes   == {"color", "radio", "hidden", "rich-text"}

StatusEnum == ZodEnum(<<"active", "inactive">>)
Leaves == {ZodString({}), ZodString({"email"}), ZodNumber, ZodBoolean, ZodDate,
           StatusEnum, ZodArray(ZodString({})), ZodObject,
           ZodLiteral(EmptyString)}

\* one schema per base kind, behind the wrappers forms are written with
SampleSchemas ==
    {ZodString({}),
     ZodNullable(ZodOptional(ZodString({"email"}))),
     ZodUnion(<<ZodOptional(ZodString({})), ZodLiteral(EmptyString)>>),
     ZodOptional(ZodNumber),
     ZodDefault(ZodBoolean),
     ZodEffects(ZodDate),
     StatusEnum,
     ZodArray(ZodString({})),
     ZodObject}
FieldInfos == {getZodFieldInfo(n) : n \in SampleSchemas}

\* the overrides a render is given: none, or a type, or a custom render
RenderOverrides ==
    {None}
    \cup {Some(FieldConfig(Some(t), FALSE, FALSE, FALSE, FALSE)) : t \in OverrideTypes}
    \cup {Some(FieldConfig(None, FALSE, FALSE, FALSE, TRUE)),
          Some(NoDirective)}

\* components objects of at most two entries, over distinct types
ComponentEntries ==
    {<<>>}
    \cup {<<<<t, c>>>> : t \in RegisteredTypes, c \in {None} \cup {Some(x) : x \in Components}}
    \cup {cs \in {<<<<t, Some(c)>>, <<u, d>>>> :
                     t \in RegisteredTypes, u \in RegisteredTypes,
                     c \in Components, d \in {None} \cup {Some(x) : x \in Components}} :
            cs[1][1] # cs[2][1]}

-----------------------------------------------------------------------------
(* Initial states: module load, no form mounted.                           *)

SchemaIdle ==
    /\ schema = ZodString({})
    /\ fieldInfo = getZodFieldInfo(ZodString({}))

RegistryInit ==
    /\ componentRegistry = EmptyObject
    /\ submitButtonComponent = None
    /\ formUIComponents = EmptyObject
    /\ translationFunction = "defaultTranslation"
    /\ onErrorBehavior = None
    /\ registeredStyles = EmptyObject
    /\ isSetup = FALSE
    /\ registryLog = <<>>
    /\ lastCall = [op |-> "none"]

ArrayIdle ==
    /\ arrayRenderer = "none"
    /\ arrayElementInfo = getZodFieldInfo(ZodString({}))
    /\ arrayOptions = None
    /\ arrayValue = <<>>
    /\ inputValue = <<>>
    /\ offeredOptions = <<>>
    /\ arrayEvent = [op |-> "none"]

\* the optional props of <SnowForm>: TRUE where the prop is passed
SnowFormProps(fetchDefaultValues, onSubmit, onSuccess, onSubmitError) ==
    [fetchDefaultValues |-> fetchDefaultValues, onSubmit |-> onSubmit,
     onSuccess |-> onSuccess, onSubmitError |-> onSubmitError]

\* no instance yet: nothing fetched, nothing submitted
LifeIdle ==
    /\ isFetchingDefaults = FALSE
    /\ hasFetchError = FALSE
    /\ isMounted = FALSE
    /\ fetchPromise = "none"
    /\ unmounted = FALSE
    /\ pendingSubmits = 0

FormIdle ==
    /\ props = SnowFormProps(FALSE, FALSE, FALSE, FALSE)
    /\ LifeIdle
    /\ formSchema = ZodObjectOf(EmptyObject)
    /\ schemaShape = EmptyObject
    /\ overrides = EmptyObject
    /\ providedValues = EmptyObject
    /\ formValues = EmptyObject
    /\ mounted = FALSE
    /\ formEvent = [op |-> "none"]

-----------------------------------------------------------------------------
(* Component registry and field dispatch.                                  *)

\* registerComponent(type, component)
RegisterComponent(type, component) ==
    /\ Len(registryLog) < MaxLog
    /\ componentRegistry' = Assign(componentRegistry, type, component)
    /\ registryLog' = Append(registryLog, LogSet(type, component))
    /\ lastCall' = [op |-> "registerComponent"]
    /\ UNCHANGED <<submitButtonComponent, formUIComponents, translationFunction,
                   onErrorBehavior, registeredStyles, isSetup>>
    /\ UNCHANGED <<schemaVars, formVars, formSchema, arrayVars, lifeVars>>

\* registerComponents(components)
RegisterComponents(components) ==
    /\ Len(registryLog) + Len(SetCalls(components)) <= MaxLog
    /\ componentRegistry' = registerComponents(componentRegistry, components)
    /\ registryLog' = registryLog \o SetCalls(components)
    /\ lastCall' = [op |-> "registerComponents"]
    /\ UNCHANGED <<submitButtonComponent, formUIComponents, translationFunction,
                   onErrorBehavior, registeredStyles, isSetup>>
    /\ UNCHANGED <<schemaVars, formVars, formSchema, arrayVars, lifeVars>>

\* clearRegistry()
ClearRegistry ==
    /\ Len(registryLog) < MaxLog
    /\ componentRegistry' = EmptyObject
    /\ submitButtonComponent' = None
    /\ formUIComponents' = EmptyObject
    /\ registryLog' = Append(registryLog, LogClear)
    /\ lastCall' = [op |-> "clearRegistry"]
    /\ UNCHANGED <<translationFunction, onErrorBehavior, registeredStyles, isSetup>>
    /\ UNCHANGED <<schemaVars, formVars, formSchema, arrayVars, lifeVars>>

\* one render of <SnowFormField fieldInfo override />
RenderField(info, override) ==
    /\ lastCall' = [op |-> "SnowFormField", fieldInfo |-> info, override |-> override,
                    result |-> SnowFormField(info, override, componentRegistry)]
    /\ UNCHANGED <<componentRegistry, submitButtonComponent, formUIComponents,
                   translationFunction, onErrorBehavior, registeredStyles, isSetup,
                   registryLog>>
    /\ UNCHANGED <<schemaVars, formVars, formSchema, arrayVars, lifeVars>>

Init == SchemaIdle /\ RegistryInit /\ FormIdle /\ ArrayIdle

Next ==
    \/ \E t \in RegisteredTypes, c \in Components : RegisterComponent(t, c)
    \/ \E cs \in ComponentEntries : RegisterComponents(cs)
    \/ ClearRegistry
    \/ \E info \in FieldInfos, ov \in RenderOverrides : RenderField(info, ov)

Spec == Init /\ [][Next]_vars

-----------------------------------------------------------------------------
(* The setup surface (registry/index.ts).                                  *)

SetupSnowFormOptions(translate, components, submitButton, onError, formUI, styles) ==
    [translate |-> translate, components |-> components,
     submitButton |-> submitButton, onError |-> onError,
     formUI |-> formUI, styles |-> styles]

FormUIA  == [k \in {"label"} |-> "LabelA"]
FormUIB  == [k \in {"label", "description"} |->
                IF k = "label" THEN "LabelB" ELSE "DescriptionB"]
StylesA  == [k \in {"form"} |-> "space-y-4"]
StylesB  == [k \in {"form", "label"} |-> IF k = "form" THEN "grid" ELSE "text-sm"]

\* the options setupSnowForm is called with; None is a call without options
SetupOptions ==
    {None,
     Some(SetupSnowFormOptions("translateA", None, None, None, None, None)),
     Some(SetupSnowFormOptions("translateA", Some(<<<<"text", Some("InputA")>>>>),
                               Some("ButtonA"), Some("onErrorA"),
                               Some(FormUIA), Some(StylesA))),
     Some(SetupSnowFormOptions("translateB",
                               Some(<<<<"text", Some("InputB")>>, <<"color", None>>>>),
                               Some("ButtonB"), Some("onErrorB"),
                               Some(FormUIB), Some(StylesB)))}

\* setupSnowForm, mutated: the isSetup guard is gone, every call configures
SetupWithoutGuard(options) ==
    IF options = None
    THEN /\ lastCall' = [op |-> "setupSnowForm", options |-> options, warned |-> FALSE, threw |-> TRUE]
         /\ UNCHANGED <<componentRegistry, submitButtonComponent, formUIComponents,
                        translationFunction, onErrorBehavior, registeredStyles,
                        isSetup, registryLog>>
    ELSE LET o == The(options)
             components == IF o.components # None THEN The(o.components) ELSE <<>>
         IN  /\ Len(registryLog) + Len(SetCalls(components)) <= MaxLog
             /\ translationFunction' = o.translate
             /\ componentRegistry' = registerComponents(componentRegistry, components)
             /\ registryLog' = registryLog \o SetCalls(components)
             /\ submitButtonComponent' =
                    IF o.submitButton # None THEN o.submitButton
                    ELSE submitButtonComponent
             /\ onErrorBehavior' =
                    IF o.onError # None THEN o.onError ELSE onErrorBehavior
             /\ formUIComponents' =
                    IF o.formUI # None THEN Spread(formUIComponents, The(o.formUI))
                    ELSE formUIComponents
             /\ registeredStyles' =
                    IF o.styles # None THEN The(o.styles) ELSE registeredStyles
             /\ isSetup' = TRUE
             /\ lastCall' = [op |-> "setupSnowForm", options |-> options, warned |-> FALSE, threw |-> FALSE]

\* setupSnowForm(options).  A call without options throws a TypeError at
\* options.translate, before anything is written, unless the guard returns
\* first.
setupSnowForm(options) ==
    IF isSetup
    THEN /\ lastCall' = [op |-> "setupSnowForm", options |-> options, warned |-> TRUE, threw |-> FALSE]
         /\ UNCHANGED <<componentRegistry, submitButtonComponent, formUIComponents,
                        translationFunction, onErrorBehavior, registeredStyles,
                        isSetup, registryLog>>
    ELSE IF options = None
    THEN /\ lastCall' = [op |-> "setupSnowForm", options |-> options, warned |-> FALSE, threw |-> TRUE]
         /\ UNCHANGED <<componentRegistry, submitButtonComponent, formUIComponents,
                        translationFunction, onErrorBehavior, registeredStyles,
                        isSetup, registryLog>>
    ELSE LET o == The(options)
             components == IF o.components # None THEN The(o.components) ELSE <<>>
         IN  /\ Len(registryLog) + Len(SetCalls(components)) <= MaxLog
             /\ translationFunction' = o.translate
             /\ componentRegistry' = registerComponents(componentRegistry, components)
             /\ registryLog' = registryLog \o SetCalls(components)
             /\ submitButtonComponent' =
                    IF o.submitButton # None THEN o.submitButton
                    ELSE submitButtonComponent
             /\ onErrorBehavior' =
                    IF o.onError # None THEN o.onError ELSE onErrorBehavior
             /\ formUIComponents' =
                    IF o.formUI # None THEN Spread(formUIComponents, The(o.formUI))
                    ELSE formUIComponents
             /\ registeredStyles' =
                    IF o.styles # None THEN The(o.styles) ELSE registeredStyles
             /\ isSetup' = TRUE
             /\ lastCall' = [op |-> "setupSnowForm", options |-> options, warned |-> FALSE, threw |-> FALSE]

SetupSnowForm(options) ==
    /\ setupSnowForm(options)
    /\ UNCHANGED <<schemaVars, formVars, formSchema, arrayVars, lifeVars>>

\* resetSnowForm(): isSetup = false, then the four registries' resets
ResetSnowForm ==
    /\ Len(registryLog) < MaxLog
    /\ isSetup' = FALSE
    /\ translationFunction' = "defaultTranslation"
    /\ componentRegistry' = EmptyObject
    /\ submitButtonComponent' = None
    /\ formUIComponents' = EmptyObject
    /\ registryLog' = Append(registryLog, LogClear)
    /\ onErrorBehavior' = None
    /\ registeredStyles' = EmptyObject
    /\ lastCall' = [op |-> "resetSnowForm"]
    /\ UNCHANGED <<schemaVars, formVars, formSchema, arrayVars, lifeVars>>

\* registerSubmitButton(component)
RegisterSubmitButton(component) ==
    /\ submitButtonComponent' = Some(component)
    /\ lastCall' = [op |-> "registerSubmitButton"]
    /\ UNCHANGED <<componentRegistry, formUIComponents, translationFunction,
                   onErrorBehavior, registeredStyles, isSetup, registryLog>>
    /\ UNCHANGED <<schemaVars, formVars, formSchema, arrayVars, lifeVars>>

\* setFormStyles(styles)
SetFormStyles(styles) ==
    /\ registeredStyles' = styles
    /\ lastCall' = [op |-> "setFormStyles"]
    /\ UNCHANGED <<componentRegistry, submitButtonComponent, formUIComponents,
                   translationFunction, onErrorBehavior, isSetup, registryLog>>
    /\ UNCHANGED <<schemaVars, formVars, formSchema, arrayVars, lifeVars>>

NextSetup ==
    \/ \E options \in SetupOptions : SetupSnowForm(options)
    \/ ResetSnowForm
    \/ \E t \in RegisteredTypes, c \in Components : RegisterComponent(t, c)
    \/ \E b \in {"ButtonA", "ButtonB"} : RegisterSubmitButton(b)
    \/ \E st \in {StylesA, StylesB} : SetFormStyles(st)

SpecSetup == Init /\ [][NextSetup]_vars

-----------------------------------------------------------------------------
(* Schema introspection: the caller builds a field schema layer by layer   *)
(* (z.string().optional().or(z.literal('')) ...) and the form classifies   *)
(* every schema it is given.                                               *)

RECURSIVE Depth(_)
Depth(n) ==
    CASE n.kind \in {"ZodOptional", "ZodNullable", "ZodDefault"} -> 1 + Depth(n.innerType)
      [] n.kind = "ZodEffects" -> 1 + Depth(n.schema)
      [] n.kind = "ZodArray"   -> Depth(n.element)
      [] n.kind = "ZodUnion"   ->
            1 + Depth(n.options[1]) + (IF Len(n.options) > 1 THEN Depth(n.options[2]) ELSE 0)
      [] OTHER -> 0

\* the other option of a two-option union
UnionPartners ==
    {ZodLiteral(EmptyString), ZodString({}), ZodNumber,
     ZodOptional(ZodString({"email"})), ZodNullable(ZodLiteral(EmptyString))}

Classify(n) ==
    /\ schema' = n
    /\ fieldInfo' = getZodFieldInfo(n)
    /\ UNCHANGED <<registryVars, formVars, formSchema, arrayVars, lifeVars>>

WrapOptional == Depth(schema) < MaxDepth /\ Classify(ZodOptional(schema))
WrapNullable == Depth(schema) < MaxDepth /\ Classify(ZodNullable(schema))
WrapDefault  == Depth(schema) < MaxDepth /\ Classify(ZodDefault(schema))
WrapEffects  == Depth(schema) < MaxDepth /\ Classify(ZodEffects(schema))
\* schema.or(other)
UnionRight(other) ==
    /\ Depth(schema) + Depth(other) < MaxDepth
    /\ Classify(ZodUnion(<<schema, other>>))
\* other.or(schema)
UnionLeft(other) ==
    /\ Depth(schema) + Depth(other) < MaxDepth
    /\ Classify(ZodUnion(<<other, schema>>))

InitSchema ==
    /\ schema \in Leaves
    /\ fieldInfo = getZodFieldInfo(schema)
    /\ RegistryInit
    /\ FormIdle
    /\ ArrayIdle

NextSchema ==
    \/ WrapOptional
    \/ WrapNullable
    \/ WrapDefault
    \/ WrapEffects
    \/ \E other \in UnionPartners : UnionRight(other)
    \/ \E other \in UnionPartners : UnionLeft(other)

SpecSchema == InitSchema /\ [][NextSchema]_vars

-----------------------------------------------------------------------------
(* One form: SnowForm computes its default values when it mounts, its      *)
(* controls report changes through handleChange, and a valid submit hands  *)
(* applyEmptyValueOverrides(values, overrides) to onSubmit.                *)

PrimaryField   == "quantity"
SecondaryField == "note"

\* one schema per base kind for the primary field
FormSchemas ==
    {ZodUnion(<<ZodOptional(ZodString({})), ZodLiteral(EmptyString)>>),
     ZodOptional(ZodNumber),
     ZodDefault(ZodBoolean),
     ZodEffects(ZodDate),
     StatusEnum,
     ZodArray(ZodString({})),
     ZodObject}

\* every combination of the three empty-value directives
Directives ==
    {FieldConfig(None, n, u, z, FALSE) : n \in BOOLEAN, u \in BOOLEAN, z \in BOOLEAN}

\* the values a caller provides as defaults
ProvidedChoices == {JsUndefined, JsNull, EmptyString, Zero, JsFalse, Text}
\* the values a control hands to onChange
EmittedValues   == {EmptyString, Blank, JsNull, JsUndefined, Text}

\* the objects with at most the key k, valued in S
Optionally(k, S) == {EmptyObject} \cup {[x \in {k} |-> v] : v \in S}

InitForm ==
    /\ \E n \in FormSchemas :
          schemaShape = [k \in {PrimaryField, SecondaryField} |->
                            IF k = PrimaryField THEN n ELSE ZodString({})]
    /\ \E a \in Optionally(PrimaryField, Directives),
          b \in Optionally(SecondaryField, {FieldConfig(None, TRUE, FALSE, FALSE, FALSE)}) :
          overrides = Spread(a, b)
    /\ providedValues \in Optionally(PrimaryField, ProvidedChoices)
    /\ formValues = EmptyObject
    /\ mounted = FALSE
    /\ formEvent = [op |-> "none"]
    /\ formSchema = ZodObjectOf(schemaShape)
    /\ props = SnowFormProps(FALSE, TRUE, TRUE, TRUE)
    /\ LifeIdle
    /\ SchemaIdle
    /\ RegistryInit
    /\ ArrayIdle

\* the fetch effect (useEffect(..., [])) up to its await: without
\* fetchDefaultValues it returns at once; otherwise isMounted = true and
\* fetchData() sets the two flags and calls fetchDefaultValues()
FetchEffect ==
    /\ isFetchingDefaults' = props.fetchDefaultValues
    /\ hasFetchError' = FALSE
    /\ isMounted' = props.fetchDefaultValues
    /\ fetchPromise' = IF props.fetchDefaultValues THEN "pending" ELSE "none"
    /\ UNCHANGED <<props, unmounted, pendingSubmits>>

\* SnowForm mounts: useForm({ defaultValues: initializeDefaultValues(...) }),
\* then the fetch effect
Mount ==
    /\ ~mounted /\ ~unmounted
    /\ mounted' = TRUE
    /\ formValues' = initializeDefaultValues(schemaShape, providedValues, overrides)
    /\ formEvent' = [op |-> "mount"]
    /\ FetchEffect
    /\ UNCHANGED <<schemaShape, overrides, providedValues>>
    /\ UNCHANGED <<schemaVars, registryVars, formSchema, arrayVars>>

\* the control of field `name` calls onChange(value)
HandleChange(name, value) ==
    /\ mounted /\ ~unmounted
    /\ name \in DOMAIN schemaShape
    /\ LET stored == handleChange(OverrideOf(overrides, name), value)
       IN  /\ formValues' = Assign(formValues, name, stored)
           /\ formEvent' = [op |-> "change", name |-> name, emitted |-> value,
                            stored |-> stored]
    /\ UNCHANGED <<schemaShape, overrides, providedValues, mounted>>
    /\ UNCHANGED <<schemaVars, registryVars, formSchema, arrayVars, lifeVars>>

\* one call of a callback, as <<function, arguments>>
Call(fn, args) == [fn |-> fn, args |-> args]

\* executeOnErrorBehavior(formRef.current, errors): onErrorBehavior?.(...)
executeOnErrorBehavior ==
    IF onErrorBehavior # None
    THEN <<Call("onErrorBehavior", <<"formRef", "errors">>)>>
    ELSE <<>>

\* the catch block of handleSubmit
CatchBlock(error) ==
    executeOnErrorBehavior
    \o (IF props.onSubmitError
        THEN <<Call("onSubmitError", <<"setManualFormErrors", error>>)>>
        ELSE <<>>)

\* submit, mutated: handleSubmit runs whatever the resolver says
HandleSubmitUnvalidated(valid) ==
    /\ mounted /\ ~unmounted
    /\ IF ~props.onSubmit
       THEN /\ formEvent' = [op |-> "noHandler", valid |-> valid, calls |-> <<>>]
            /\ UNCHANGED pendingSubmits
       ELSE /\ pendingSubmits < MaxPending
            /\ formEvent' =
                  [op |-> "submit", valid |-> valid,
                   onSubmitArg |-> applyEmptyValueOverrides(formValues, overrides)]
            /\ pendingSubmits' = pendingSubmits + 1
    /\ UNCHANGED <<props, isFetchingDefaults, hasFetchError, isMounted,
                   fetchPromise, unmounted>>
    /\ UNCHANGED <<schemaShape, overrides, providedValues, formValues, mounted>>
    /\ UNCHANGED <<schemaVars, registryVars, formSchema, arrayVars>>

\* form.handleSubmit(handleSubmit, handleInvalid), up to the await: the
\* resolver's verdict is the environment's.  Invalid values go to
\* handleInvalid; valid ones to handleSubmit, which returns at once without
\* onSubmit and otherwise calls onSubmit with the normalised values
HandleSubmit(valid) ==
    /\ mounted /\ ~unmounted
    /\ IF ~valid
       THEN /\ formEvent' = [op |-> "invalid", valid |-> FALSE,
                             calls |-> executeOnErrorBehavior]
            /\ UNCHANGED pendingSubmits
       ELSE IF ~props.onSubmit
       THEN /\ formEvent' = [op |-> "noHandler", valid |-> TRUE, calls |-> <<>>]
            /\ UNCHANGED pendingSubmits
       ELSE /\ pendingSubmits < MaxPending
            /\ formEvent' =
                  [op |-> "submit", valid |-> TRUE,
                   onSubmitArg |-> applyEmptyValueOverrides(formValues, overrides)]
            /\ pendingSubmits' = pendingSubmits + 1
    /\ UNCHANGED <<props, isFetchingDefaults, hasFetchError, isMounted,
                   fetchPromise, unmounted>>
    /\ UNCHANGED <<schemaShape, overrides, providedValues, formValues, mounted>>
    /\ UNCHANGED <<schemaVars, registryVars, formSchema, arrayVars>>

\* handleSubmit after its await, onSubmit's promise resolved: onSuccess, if
\* passed, is called inside the try block, so that an onSuccess that throws
\* lands in the catch block
OnSubmitResolved(throws) ==
    /\ pendingSubmits > 0
    /\ throws => props.onSuccess
    /\ formEvent' =
          [op |-> "settled", outcome |-> "resolved",
           calls |-> (IF props.onSuccess
                      THEN <<Call("onSuccess", <<"response">>)>> ELSE <<>>)
                     \o (IF throws THEN CatchBlock("thrownByOnSuccess") ELSE <<>>)]
    /\ pendingSubmits' = pendingSubmits - 1
    /\ UNCHANGED <<props, isFetchingDefaults, hasFetchError, isMounted,
                   fetchPromise, unmounted>>
    /\ UNCHANGED <<schemaShape, overrides, providedValues, formValues, mounted>>
    /\ UNCHANGED <<schemaVars, registryVars, formSchema, arrayVars>>

\* handleSubmit after its await, onSubmit's promise rejected: the catch block
OnSubmitRejected ==
    /\ pendingSubmits > 0
    /\ formEvent' = [op |-> "settled", outcome |-> "rejected",
                     calls |-> CatchBlock("rejection")]
    /\ pendingSubmits' = pendingSubmits - 1
    /\ UNCHANGED <<props, isFetchingDefaults, hasFetchError, isMounted,
                   fetchPromise, unmounted>>
    /\ UNCHANGED <<schemaShape, overrides, providedValues, formValues, mounted>>
    /\ UNCHANGED <<schemaVars, registryVars, formSchema, arrayVars>>

NextForm ==
    \/ Mount
    \/ \E name \in {PrimaryField, SecondaryField}, v \in EmittedValues :
          HandleChange(name, v)
    \/ \E valid \in BOOLEAN : HandleSubmit(valid)
    \/ \E throws \in BOOLEAN : OnSubmitResolved(throws)
    \/ OnSubmitRejected

SpecForm == InitForm /\ [][NextForm]_vars

-----------------------------------------------------------------------------
(* One array field, rendered by one of the two ArrayFieldRenderers.  Both  *)
(* return null, with a warning, when the element type has no registered    *)
(* control; then there is nothing to act on.                               *)

\* the components the test setup registers
TestTypes == <<"text", "email", "number", "checkbox", "select", "date">>
TestRegistry == [t \in {TestTypes[i] : i \in 1..Len(TestTypes)} |-> "InputA"]

\* a hand-built element classification: enum without enumValues
EnumWithoutValues ==
    [baseType |-> "enum", isOptional |-> FALSE, isEmail |-> FALSE, enumValues |-> None]
ElementInfos ==
    {getZodFieldInfo(n) : n \in {ZodString({}), ZodNumber, ZodBoolean, StatusEnum, ZodDate}}
    \cup {EnumWithoutValues}

\* override.options: absent, or two options, one of them not an enum value
OptionLists ==
    {None,
     Some(<<[label |-> "Active", value |-> JsEnumValue("active")],
            [label |-> "Archived", value |-> JsEnumValue("archived")]>>)}

\* what the control of one element reports through onChange
ItemValues(info, options) ==
    CASE info.baseType = "number"  -> {JsNumber(7)}
      [] info.baseType = "boolean" -> {JsBoolean(TRUE)}
      [] info.baseType = "enum"    ->
            {allOptions(info, options)[i].value :
                i \in 1..Len(allOptions(info, options))}
      [] OTHER                     -> {Text, EmptyString}

AllItemValues ==
    UNION {ItemValues(info, options) : info \in ElementInfos, options \in OptionLists}

\* what the add-control of the chips renderer reports through onChange
TypedValues ==
    {EmptyString, Blank, Text, JsString(<<" ", "a">>), JsString(<<"7">>),
     JsString(<<"1", "0">>), JsNumber(7), JsNull}

\* field.value when the renderer mounts (the form's default values are not
\* validated): for enum elements any sequence of at most two of these three
\* values, one of which is in neither the enum nor the override options, and
\* one of which may repeat; for the other kinds no element or one
StartArrays(info, options) ==
    IF info.baseType = "enum"
    THEN LET universe == {JsEnumValue("active"), JsEnumValue("inactive"),
                          JsEnumValue("archived")}
         IN  {<<>>} \cup {<<a>> : a \in universe}
                   \cup {<<a, b>> : a \in universe, b \in universe}
    ELSE {<<>>} \cup {<<a>> : a \in ItemValues(info, options)}

\* the ElementComponent exists, so the renderer returns its controls
ArrayRendered ==
    hasRegisteredComponent(componentRegistry,
                           resolveFieldType(arrayElementInfo, None))

\* the options prop of the add-control: the list renderer's is a button
RenderedOptions(renderer, info, options, value) ==
    IF renderer = "chips" THEN availableOptions(info, options, value) ELSE <<>>

InitArray ==
    /\ arrayRenderer \in {"list", "chips"}
    /\ arrayElementInfo \in ElementInfos
    /\ arrayOptions \in OptionLists
    /\ arrayValue \in StartArrays(arrayElementInfo, arrayOptions)
    /\ inputValue = <<>>
    /\ offeredOptions
         = RenderedOptions(arrayRenderer, arrayElementInfo, arrayOptions, arrayValue)
    /\ arrayEvent = [op |-> "none"]
    /\ \E n \in {1, Len(TestTypes)} :
          /\ componentRegistry = [t \in {TestTypes[i] : i \in 1..n} |-> "InputA"]
          /\ registryLog = [i \in 1..n |-> LogSet(TestTypes[i], "InputA")]
    /\ submitButtonComponent = None
    /\ formUIComponents = EmptyObject
    /\ translationFunction = "defaultTranslation"
    /\ onErrorBehavior = None
    /\ registeredStyles = EmptyObject
    /\ isSetup = TRUE
    /\ lastCall = [op |-> "none"]
    /\ SchemaIdle
    /\ FormIdle

\* field.onChange(next), then the render that follows it
FieldOnChange(next, input, event) ==
    /\ arrayValue' = next
    /\ inputValue' = input
    /\ offeredOptions'
         = RenderedOptions(arrayRenderer, arrayElementInfo, arrayOptions, next)
    /\ arrayEvent' = event
    /\ UNCHANGED <<arrayRenderer, arrayElementInfo, arrayOptions>>
    /\ UNCHANGED <<schemaVars, registryVars, formVars, formSchema, lifeVars>>

\* list renderer: the add button
AddItem ==
    /\ arrayRenderer = "list" /\ ArrayRendered
    /\ Len(arrayValue) < MaxItems
    /\ FieldOnChange(Append(arrayValue, getDefaultValue(arrayElementInfo)), inputValue,
                     [op |-> "add", before |-> arrayValue])

\* list renderer: the control of element `index` reports newVal
ChangeItem(index, newVal) ==
    /\ arrayRenderer = "list" /\ ArrayRendered
    /\ index \in 1..Len(arrayValue)
    /\ newVal \in ItemValues(arrayElementInfo, arrayOptions)
    /\ FieldOnChange([arrayValue EXCEPT ![index] = newVal], inputValue,
                     [op |-> "changeItem", before |-> arrayValue, index |-> index])

\* list renderer: the remove button of element `index`
RemoveItem(index) ==
    /\ arrayRenderer = "list" /\ ArrayRendered
    /\ index \in 1..Len(arrayValue)
    /\ FieldOnChange(handleRemove(arrayValue, index), inputValue,
                     [op |-> "remove", before |-> arrayValue, index |-> index])

\* chips renderer: the chip of element `index` is clicked
HandleRemove(index) ==
    /\ arrayRenderer = "chips" /\ ArrayRendered
    /\ index \in 1..Len(arrayValue)
    /\ FieldOnChange(handleRemove(arrayValue, index), inputValue,
                     [op |-> "remove", before |-> arrayValue, index |-> index])

\* chips renderer, elements not enum: the add-control reports val
SetInputValue(val) ==
    /\ arrayRenderer = "chips" /\ ArrayRendered
    /\ arrayElementInfo.baseType # "enum"
    /\ FieldOnChange(arrayValue, ToStringOrEmpty(val),
                     [op |-> "setInputValue", before |-> arrayValue])

\* chips renderer, elements not enum: Enter is pressed in the add-control
HandleAdd ==
    /\ arrayRenderer = "chips" /\ ArrayRendered
    /\ arrayElementInfo.baseType # "enum"
    /\ Len(arrayValue) < MaxItems
    /\ LET next == handleAdd(arrayElementInfo, arrayValue, inputValue)
       IN  FieldOnChange(next[1], next[2],
                         [op |-> "handleAdd", before |-> arrayValue,
                          input |-> inputValue])

\* chips renderer, enum elements: the add-control, which is disabled when it
\* has no option left, reports the option picked ('' for its placeholder)
SelectOption(val) ==
    /\ arrayRenderer = "chips" /\ ArrayRendered
    /\ arrayElementInfo.baseType = "enum"
    /\ offeredOptions # <<>>
    /\ val \in {offeredOptions[i].value : i \in 1..Len(offeredOptions)} \cup {EmptyString}
    /\ Len(arrayValue) < MaxItems
    /\ FieldOnChange(IF val # EmptyString THEN Append(arrayValue, val) ELSE arrayValue,
                     inputValue,
                     [op |-> "select", before |-> arrayValue, picked |-> val])

NextArray ==
    \/ AddItem
    \/ \E index \in 1..MaxItems, newVal \in AllItemValues : ChangeItem(index, newVal)
    \/ \E index \in 1..MaxItems : RemoveItem(index)
    \/ \E index \in 1..MaxItems : HandleRemove(index)
    \/ \E val \in TypedValues : SetInputValue(val)
    \/ HandleAdd
    \/ \E val \in AllItemValues : SelectOption(val)

SpecArray == InitArray /\ [][NextArray]_vars

-----------------------------------------------------------------------------
(* SnowForm given a schema that is an object or an object under refine()   *)
(* / superRefine() layers (ZodObjectOrEffects): the first render takes the *)
(* shape from getZodShape(schema) and the default values from it.          *)

ObjectShapes ==
    {[k \in {PrimaryField, SecondaryField} |->
         IF k = PrimaryField THEN n ELSE ZodString({})] :
       n \in {ZodString({}), ZodOptional(ZodNumber), ZodDefault(ZodBoolean)}}
    \cup {[k \in {PrimaryField} |-> ZodString({"email"})]}

\* schema: z.object(shape), .refine(...) and .refine(...).superRefine(...)
RefinedSchemas ==
    UNION {{ZodObjectOf(shape), ZodEffects(ZodObjectOf(shape)),
            ZodEffects(ZodEffects(ZodObjectOf(shape)))} : shape \in ObjectShapes}

InitRefine ==
    /\ formSchema \in RefinedSchemas
    /\ schemaShape = EmptyObject
    /\ overrides \in Optionally(PrimaryField, {FieldConfig(None, TRUE, FALSE, FALSE, FALSE)})
    /\ providedValues \in Optionally(PrimaryField, {Text})
    /\ formValues = EmptyObject
    /\ mounted = FALSE
    /\ formEvent = [op |-> "none"]
    /\ props = SnowFormProps(FALSE, TRUE, TRUE, TRUE)
    /\ LifeIdle
    /\ SchemaIdle
    /\ RegistryInit
    /\ ArrayIdle

\* the first render of <SnowForm schema={formSchema} />: schemaShape,
\* fieldInfoMap, fieldKeys, then useForm with the computed default values
RenderSnowForm ==
    /\ ~mounted /\ ~unmounted
    /\ mounted' = TRUE
    /\ FetchEffect
    /\ schemaShape' = getZodShape(formSchema)
    /\ formValues' = initializeDefaultValues(schemaShape', providedValues, overrides)
    /\ formEvent' = [op |-> "mount",
                     fieldInfoMap |-> [k \in DOMAIN schemaShape' |->
                                          getZodFieldInfo(schemaShape'[k])],
                     fieldKeys |-> DOMAIN schemaShape']
    /\ UNCHANGED <<formSchema, overrides, providedValues>>
    /\ UNCHANGED <<schemaVars, registryVars, arrayVars>>

NextRefine ==
    \/ RenderSnowForm
    \/ \E name \in {PrimaryField, SecondaryField}, v \in EmittedValues :
          HandleChange(name, v)
    \/ \E valid \in BOOLEAN : HandleSubmit(valid)
    \/ \E throws \in BOOLEAN : OnSubmitResolved(throws)
    \/ OnSubmitRejected

SpecRefine == InitRefine /\ [][NextRefine]_vars

-----------------------------------------------------------------------------
(* One SnowForm instance from mount to unmount: the fetch of its default   *)
(* values, what its render helpers return, and its submissions.            *)

\* names every plain object inherits from Object.prototype
ObjectPrototype == {"toString", "constructor"}

\* an inherited function read as a SchemaFieldInfo: every property
\* SnowFormField reads of it is undefined
InheritedFunction ==
    [baseType |-> "undefined", isOptional |-> FALSE, isEmail |-> FALSE,
     enumValues |-> None]

\* obj[key] on an object literal: an own property, else an inherited one,
\* else undefined (None)
GetProperty(obj, key) ==
    IF key \in DOMAIN obj THEN Some(obj[key])
    ELSE IF key \in ObjectPrototype THEN Some(InheritedFunction)
    ELSE None

\* SnowForm's fieldInfoMap: getZodFieldInfo of every entry of schemaShape
fieldInfoMap == [k \in DOMAIN schemaShape |-> getZodFieldInfo(schemaShape[k])]

\* SnowFormField's isDisabled = formDisabled || override?.disabled
isDisabled(formDisabled, override) ==
    \/ formDisabled
    \/ /\ override # None
       /\ "disabled" \in DOMAIN The(override)
       /\ The(override).disabled

\* helpers.renderField(...keys): per key null and a warning when
\* fieldInfoMap[key] is falsy, else a FormField around SnowFormField, whose
\* control alone is handed the disabled flag
renderField(keys) ==
    [i \in 1..Len(keys) |->
        LET info     == GetProperty(fieldInfoMap, keys[i])
            override == OverrideOf(overrides, keys[i])
        IN  IF info = None
            THEN [key |-> keys[i], element |-> "null", warned |-> TRUE,
                  disabled |-> None]
            ELSE LET field == SnowFormField(The(info), override, componentRegistry)
                 IN  [key |-> keys[i], element |-> field.element, warned |-> FALSE,
                      disabled |-> IF field.element = "control"
                                   THEN Some(isDisabled(isFetchingDefaults, override))
                                   ELSE None]]

\* form.formState.isSubmitting: react-hook-form holds it true while a
\* handleSubmit call awaits the promise of onSubmit
isSubmitting == pendingSubmits > 0

\* helpers.renderSubmitButton(options): the registered button, or the
\* minimal fallback with a warning
renderSubmitButton(disabledOption) ==
    [component |-> submitButtonComponent,
     warned    |-> submitButtonComponent = None,
     loading   |-> isSubmitting,
     disabled  |-> disabledOption \/ isFetchingDefaults \/ hasFetchError
                   \/ isSubmitting]

\* the overrides of the primary field in this specification: a directive, a
\* custom render function, a hidden field
LifeOverrides ==
    {FieldConfig(None, TRUE, FALSE, FALSE, FALSE),
     FieldConfig(None, FALSE, FALSE, FALSE, TRUE),
     FieldConfig(Some("hidden"), FALSE, FALSE, FALSE, FALSE)}

\* the props: with or without fetchDefaultValues; onSuccess and
\* onSubmitError vary where onSubmit is passed
LifeProps ==
    {SnowFormProps(f, FALSE, FALSE, FALSE) : f \in BOOLEAN}
    \cup {SnowFormProps(f, TRUE, s, e) : f \in BOOLEAN, s \in BOOLEAN, e \in BOOLEAN}

\* what fetchDefaultValues resolves to
FetchedData == {EmptyObject, [k \in {PrimaryField} |-> JsNumber(7)]}

\* the names a render asks for: "missing" is in neither the schema nor
\* Object.prototype
KeyLists ==
    {<<PrimaryField, SecondaryField>>, <<"missing">>, <<"missing", PrimaryField>>,
     <<PrimaryField, "toString">>}

InitLife ==
    /\ schemaShape = [k \in {PrimaryField, SecondaryField} |->
                         IF k = PrimaryField THEN ZodOptional(ZodNumber)
                         ELSE ZodString({})]
    /\ formSchema = ZodObjectOf(schemaShape)
    /\ overrides \in Optionally(PrimaryField, LifeOverrides)
    /\ providedValues = EmptyObject
    /\ formValues = EmptyObject
    /\ mounted = FALSE
    /\ formEvent = [op |-> "none"]
    /\ props \in LifeProps
    /\ LifeIdle
    /\ componentRegistry = TestRegistry
    /\ registryLog = [i \in 1..Len(TestTypes) |-> LogSet(TestTypes[i], "InputA")]
    /\ submitButtonComponent = Some("ButtonA")
    /\ formUIComponents = EmptyObject
    /\ translationFunction = "defaultTranslation"
    /\ onErrorBehavior \in {None, Some("onErrorA")}
    /\ registeredStyles = EmptyObject
    /\ isSetup = TRUE
    /\ lastCall = [op |-> "none"]
    /\ SchemaIdle
    /\ ArrayIdle

\* a render of the mounted form whose children call renderField(...keys) and
\* renderSubmitButton({ disabled }); the auto-generated layout calls
\* renderField once per field key and renderSubmitButton()
Render(keys, disabledOption) ==
    /\ mounted /\ ~unmounted
    /\ formEvent' = [op |-> "render", keys |-> keys,
                     fields |-> renderField(keys),
                     submitButton |-> renderSubmitButton(disabledOption)]
    /\ UNCHANGED <<schemaShape, overrides, providedValues, formValues, mounted>>
    /\ UNCHANGED <<schemaVars, registryVars, formSchema, arrayVars, lifeVars>>

\* fetchData after its await, mutated: the isMounted tests are gone
FetchResolvedUnguarded(data) ==
    /\ fetchPromise = "pending"
    /\ fetchPromise' = "resolved"
    /\ formValues' = Spread(initializeDefaultValues(schemaShape, providedValues,
                                                    overrides), data)
    /\ isFetchingDefaults' = FALSE
    /\ formEvent' = [op |-> "fetched", outcome |-> "resolved", logged |-> FALSE]
    /\ UNCHANGED <<props, hasFetchError, isMounted, unmounted, pendingSubmits>>
    /\ UNCHANGED <<schemaShape, overrides, providedValues, mounted>>
    /\ UNCHANGED <<schemaVars, registryVars, formSchema, arrayVars>>

\* fetchData after its await, the promise resolved with data: if isMounted,
\* form.reset({ ...computedDefaultValues, ...data }) and, in the finally
\* block, setIsFetchingDefaults(false)
FetchResolved(data) ==
    /\ fetchPromise = "pending"
    /\ fetchPromise' = "resolved"
    /\ IF isMounted
       THEN /\ formValues' = Spread(initializeDefaultValues(schemaShape, providedValues,
                                                            overrides), data)
            /\ isFetchingDefaults' = FALSE
       ELSE UNCHANGED <<formValues, isFetchingDefaults>>
    /\ formEvent' = [op |-> "fetched", outcome |-> "resolved", logged |-> FALSE]
    /\ UNCHANGED <<props, hasFetchError, isMounted, unmounted, pendingSubmits>>
    /\ UNCHANGED <<schemaShape, overrides, providedValues, mounted>>
    /\ UNCHANGED <<schemaVars, registryVars, formSchema, arrayVars>>

\* fetchData after its await, mutated: the catch block only logs
FetchRejectedWithoutFlag ==
    /\ fetchPromise = "pending"
    /\ fetchPromise' = "rejected"
    /\ IF isMounted
       THEN isFetchingDefaults' = FALSE
       ELSE UNCHANGED isFetchingDefaults
    /\ formEvent' = [op |-> "fetched", outcome |-> "rejected", logged |-> TRUE]
    /\ UNCHANGED <<props, hasFetchError, isMounted, unmounted, pendingSubmits>>
    /\ UNCHANGED <<schemaShape, overrides, providedValues, formValues, mounted>>
    /\ UNCHANGED <<schemaVars, registryVars, formSchema, arrayVars>>

\* fetchData after its await, the promise rejected: console.error, then, if
\* isMounted, setHasFetchError(true) and setIsFetchingDefaults(false)
FetchRejected ==
    /\ fetchPromise = "pending"
    /\ fetchPromise' = "rejected"
    /\ IF isMounted
       THEN /\ hasFetchError' = TRUE
            /\ isFetchingDefaults' = FALSE
       ELSE UNCHANGED <<hasFetchError, isFetchingDefaults>>
    /\ formEvent' = [op |-> "fetched", outcome |-> "rejected", logged |-> TRUE]
    /\ UNCHANGED <<props, isMounted, unmounted, pendingSubmits>>
    /\ UNCHANGED <<schemaShape, overrides, providedValues, formValues, mounted>>
    /\ UNCHANGED <<schemaVars, registryVars, formSchema, arrayVars>>

\* the instance unmounts: the cleanup of the fetch effect sets isMounted = false
Unmount ==
    /\ mounted /\ ~unmounted
    /\ unmounted' = TRUE
    /\ isMounted' = FALSE
    /\ formEvent' = [op |-> "unmount"]
    /\ UNCHANGED <<props, isFetchingDefaults, hasFetchError, fetchPromise,
                   pendingSubmits>>
    /\ UNCHANGED <<schemaShape, overrides, providedValues, formValues, mounted>>
    /\ UNCHANGED <<schemaVars, registryVars, formSchema, arrayVars>>

NextLife ==
    \/ Mount
    \/ \E keys \in KeyLists, disabledOption \in BOOLEAN : Render(keys, disabledOption)
    \/ \E v \in {Text, EmptyString} : HandleChange(PrimaryField, v)
    \/ \E valid \in BOOLEAN : HandleSubmit(valid)
    \/ \E throws \in BOOLEAN : OnSubmitResolved(throws)
    \/ OnSubmitRejected
    \/ \E data \in FetchedData : FetchResolved(data)
    \/ FetchRejected
    \/ Unmount

SpecLife == InitLife /\ [][NextLife]_vars

-----------------------------------------------------------------------------
(* Properties.                                                             *)

Rendered == lastCall.op = "SnowFormField"

\* C1: when the resolved type of a field (other than a hidden field or one
\* with a custom render function) has no control in the component registry,
\* the render returns nothing and warns with the missing type; no built-in
\* default control is used in its place.
C1_NoBuiltInFallback ==
    (/\ Rendered
     /\ lastCall.result.element \notin {"input-hidden", "custom-render"}
     /\ ~hasRegisteredComponent(componentRegistry, lastCall.result.fieldType))
    => /\ lastCall.result.element = "null"
       /\ lastCall.result.warned = Some(lastCall.result.fieldType)

\* C2: a setupSnowForm call made while isSetup holds changes none of the
\* registries, warns, and does not throw.
C2_DuplicateSetupIgnored ==
    [][(isSetup /\ lastCall'.op = "setupSnowForm")
        => /\ UNCHANGED <<componentRegistry, submitButtonComponent,
                          translationFunction, onErrorBehavior, formUIComponents,
                          registeredStyles>>
           /\ lastCall'.warned
           /\ ~lastCall'.threw]_vars

\* a second setup call, with other options than the first, was ignored
C2_Witness ==
    /\ lastCall.op = "setupSnowForm"
    /\ lastCall.warned
    /\ lastCall.options # None
    /\ The(lastCall.options).translate = "translateB"
    /\ translationFunction = "translateA"
    /\ submitButtonComponent = Some("ButtonA")

\* the component of the latest Map.set of `type` after the latest Map.clear
RECURSIVE LastRegistration(_, _)
LastRegistration(log, type) ==
    IF log = <<>> THEN None
    ELSE LET last == log[Len(log)]
         IN  IF last.op = "clear" THEN None
             ELSE IF last.type = type THEN Some(last.component)
             ELSE LastRegistration(SubSeq(log, 1, Len(log) - 1), type)

AllTypes == RegisteredTypes \cup OverrideTypes

\* C3: getRegisteredComponent(t) is the most recent registration of t since
\* the last clearRegistry, and hasRegisteredComponent / getRegisteredTypes
\* report exactly the types that have one.
C3_LastRegistrationWins ==
    /\ \A t \in AllTypes :
          /\ getRegisteredComponent(componentRegistry, t)
                = LastRegistration(registryLog, t)
          /\ hasRegisteredComponent(componentRegistry, t)
                <=> LastRegistration(registryLog, t) # None
    /\ getRegisteredTypes(componentRegistry)
          = {t \in AllTypes : LastRegistration(registryLog, t) # None}

\* a type registered, cleared away, and another registered twice
C3_Witness ==
    /\ Len(registryLog) = MaxLog
    /\ \E i \in 1..Len(registryLog) : registryLog[i].op = "clear"
    /\ \E i \in 1..Len(registryLog), j \in 1..Len(registryLog) :
          /\ i < j
          /\ registryLog[i].op = "set" /\ registryLog[j].op = "set"
          /\ registryLog[i].type = registryLog[j].type
          /\ registryLog[i].component # registryLog[j].component
          /\ getRegisteredComponent(componentRegistry, registryLog[j].type)
                = Some(registryLog[j].component)

Mounted == formEvent.op = "mount"

\* C4: the mounted default values have an entry for every schema field, and
\* every provided entry (an explicit undefined or null included) is there
\* unchanged.
C4_ProvidedValuesWin ==
    Mounted =>
        /\ DOMAIN schemaShape \subseteq DOMAIN formValues
        /\ \A k \in DOMAIN providedValues : formValues[k] = providedValues[k]

\* an explicit undefined is kept where a default '' or false would be made
C4_Witness ==
    /\ Mounted
    /\ PrimaryField \in DOMAIN providedValues
    /\ providedValues[PrimaryField] = JsUndefined
    /\ getZodFieldInfo(schemaShape[PrimaryField]).baseType = "boolean"
    /\ formValues[PrimaryField] = JsUndefined
    /\ formValues[SecondaryField] = JsNull

NumberOfDirectives(override) ==
    (IF emptyAsNull(override) THEN 1 ELSE 0)
    + (IF emptyAsUndefined(override) THEN 1 ELSE 0)
    + (IF emptyAsZero(override) THEN 1 ELSE 0)

\* the table of default values, for an override with at most one directive
TableDefault(baseType, override) ==
    CASE baseType = "string" ->
            IF emptyAsNull(override) THEN JsNull
            ELSE IF emptyAsUndefined(override) THEN JsUndefined ELSE EmptyString
      [] baseType = "number" ->
            IF emptyAsZero(override) THEN Zero
            ELSE IF emptyAsUndefined(override) THEN JsUndefined ELSE JsNull
      [] baseType = "boolean" -> JsFalse
      [] baseType = "date" -> JsNull
      [] baseType \in {"enum", "array", "unknown"} -> JsUndefined

\* C5: a field with no provided value, under an override with at most one
\* directive, gets the default of the table: string '' (null / undefined),
\* number null (0 / null / undefined), boolean false, date null, enum, array
\* and unknown undefined.
C5_DefaultTable ==
    Mounted =>
        \A k \in (DOMAIN schemaShape) \ (DOMAIN providedValues) :
            NumberOfDirectives(OverrideOf(overrides, k)) <= 1
            => formValues[k]
                 = TableDefault(getZodFieldInfo(schemaShape[k]).baseType,
                                OverrideOf(overrides, k))

\* a number field with emptyAsZero defaults to 0
C5_Witness ==
    /\ Mounted
    /\ PrimaryField \notin DOMAIN providedValues
    /\ getZodFieldInfo(schemaShape[PrimaryField]).baseType = "number"
    /\ OverrideOf(overrides, PrimaryField) = Some(FieldConfig(None, FALSE, FALSE, TRUE, FALSE))
    /\ formValues[PrimaryField] = Zero
    /\ formValues[SecondaryField] = JsNull

\* what an empty value becomes under the order null > undefined > zero
NullUndefinedZero(override, otherwise) ==
    IF emptyAsNull(override) THEN JsNull
    ELSE IF emptyAsUndefined(override) THEN JsUndefined
    ELSE IF emptyAsZero(override) THEN Zero
    ELSE otherwise

\* what the default of a number field is: zero > null > undefined
ZeroNullUndefined(override) ==
    IF emptyAsZero(override) THEN Zero
    ELSE IF emptyAsNull(override) THEN JsNull
    ELSE IF emptyAsUndefined(override) THEN JsUndefined
    ELSE JsNull

\* on-change handling and submit normalisation of an empty string follow the
\* order null > undefined > zero
EmptyStringPrecedence ==
    /\ formEvent.op = "change" /\ formEvent.emitted = EmptyString
       => formEvent.stored
            = NullUndefinedZero(OverrideOf(overrides, formEvent.name), EmptyString)
    /\ formEvent.op = "submit"
       => \A k \in DOMAIN formValues :
             (formValues[k] = EmptyString /\ k \in DOMAIN overrides)
             => formEvent.onSubmitArg[k]
                  = NullUndefinedZero(OverrideOf(overrides, k), EmptyString)

\* C6 as stated: wherever the directives are consulted, default synthesis
\* included, several directives take effect in the order null > undefined >
\* zero.
C6_Original ==
    /\ EmptyStringPrecedence
    /\ Mounted
       => \A k \in (DOMAIN schemaShape) \ (DOMAIN providedValues) :
             (/\ getZodFieldInfo(schemaShape[k]).baseType = "number"
              /\ NumberOfDirectives(OverrideOf(overrides, k)) >= 2)
             => formValues[k] = NullUndefinedZero(OverrideOf(overrides, k), JsNull)

\* C6, amended: on-change handling and submit normalisation map an empty
\* string in the order null > undefined > zero; default synthesis uses
\* null > undefined for a string field (emptyAsZero is not consulted) and
\* zero > null > undefined for a number field.
C6_Amended ==
    /\ EmptyStringPrecedence
    /\ Mounted
       => \A k \in (DOMAIN schemaShape) \ (DOMAIN providedValues) :
             LET base == getZodFieldInfo(schemaShape[k]).baseType
                 override == OverrideOf(overrides, k)
             IN  /\ base = "number" => formValues[k] = ZeroNullUndefined(override)
                 /\ base = "string"
                    => formValues[k]
                         = IF emptyAsNull(override) THEN JsNull
                           ELSE IF emptyAsUndefined(override) THEN JsUndefined
                           ELSE EmptyString

\* emptyAsNull and emptyAsZero together: the number field's default is 0
C6_Witness ==
    /\ Mounted
    /\ PrimaryField \notin DOMAIN providedValues
    /\ getZodFieldInfo(schemaShape[PrimaryField]).baseType = "number"
    /\ OverrideOf(overrides, PrimaryField) = Some(FieldConfig(None, TRUE, FALSE, TRUE, FALSE))
    /\ formValues[PrimaryField] = Zero

Submitted == formEvent.op = "submit"

\* a string made of white space only, the empty string included
IsBlankString(v) ==
    v.type = "string" /\ \A i \in 1..Len(v.chars) : v.chars[i] = " "

\* C7: applyEmptyValueOverrides maps '', null and undefined to 0 under
\* emptyAsZero, an empty or whitespace-only string to null under emptyAsNull,
\* and an empty string to undefined under emptyAsUndefined (each directive
\* read as the one that decides: a directive of higher precedence set beside
\* it decides instead, which is C6's matter).
C7_EmptyValuesNormalised ==
    Submitted =>
        \A k \in (DOMAIN formValues) \cap (DOMAIN overrides) :
            LET override == Some(overrides[k])
                value == formValues[k]
                out == formEvent.onSubmitArg[k]
            IN  /\ (emptyAsNull(override) /\ IsBlankString(value)) => out = JsNull
                /\ (emptyAsUndefined(override) /\ ~emptyAsNull(override)
                    /\ value = EmptyString) => out = JsUndefined
                /\ (emptyAsZero(override) /\ value \in {JsNull, JsUndefined})
                   => out = Zero
                /\ (emptyAsZero(override) /\ NumberOfDirectives(override) = 1
                    /\ value = EmptyString) => out = Zero

\* a whitespace-only string under emptyAsNull is submitted as null
C7_Witness ==
    /\ Submitted
    /\ OverrideOf(overrides, PrimaryField) = Some(FieldConfig(None, TRUE, FALSE, FALSE, FALSE))
    /\ formValues[PrimaryField] = Blank
    /\ formEvent.onSubmitArg[PrimaryField] = JsNull

\* a value that is none of '', a whitespace-only string, null, undefined
IsNonEmpty(v) == v \notin {JsNull, JsUndefined} /\ ~IsBlankString(v)

\* C8: applyEmptyValueOverrides keeps every key, every value of a field
\* without an override and every non-empty value.
C8_NothingElseChanges ==
    Submitted =>
        /\ DOMAIN formEvent.onSubmitArg = DOMAIN formValues
        /\ \A k \in DOMAIN formValues :
              (k \notin DOMAIN overrides \/ IsNonEmpty(formValues[k]))
              => formEvent.onSubmitArg[k] = formValues[k]

\* false under emptyAsZero and '' without an override are both kept
C8_Witness ==
    /\ Submitted
    /\ OverrideOf(overrides, PrimaryField) = Some(FieldConfig(None, FALSE, FALSE, TRUE, FALSE))
    /\ formValues[PrimaryField] = JsFalse
    /\ formEvent.onSubmitArg[PrimaryField] = JsFalse
    /\ SecondaryField \notin DOMAIN overrides
    /\ formValues[SecondaryField] = EmptyString
    /\ formEvent.onSubmitArg[SecondaryField] = EmptyString

\* the resolver's table for a classification without an override type
TableType(info) ==
    CASE info.baseType = "string" /\ info.isEmail  -> "email"
      [] info.baseType = "string" /\ ~info.isEmail -> "text"
      [] info.baseType = "number"  -> "number"
      [] info.baseType = "boolean" -> "checkbox"
      [] info.baseType = "date"    -> "date"
      [] info.baseType = "enum"    -> "select"
      [] info.baseType \in {"array", "unknown"} -> "text"

\* C9: the resolved type is override.type whenever that is set, whatever
\* the classification and the registry; otherwise it follows the table.
C9_OverrideTypeWins ==
    Rendered =>
        LET override == lastCall.override
        IN  lastCall.result.fieldType
              = IF override # None /\ The(override).type # None
                THEN The(The(override).type)
                ELSE TableType(lastCall.fieldInfo)

\* an enum field with type 'radio', which a non-empty registry does not hold
C9_Witness ==
    /\ Rendered
    /\ lastCall.fieldInfo.baseType = "enum"
    /\ lastCall.override = Some(FieldConfig(Some("radio"), FALSE, FALSE, FALSE, FALSE))
    /\ lastCall.result.fieldType = "radio"
    /\ DOMAIN componentRegistry = {"text"}

RECURSIVE AcceptsNoValue(_)
AcceptsNoValue(n) ==
    CASE n.kind \in {"ZodOptional", "ZodNullable", "ZodDefault"} -> TRUE
      [] n.kind = "ZodEffects" -> AcceptsNoValue(n.schema)
      [] n.kind = "ZodUnion" ->
            \E i \in 1..Len(n.options) :
                \/ n.options[i] = ZodLiteral(EmptyString)
                \/ AcceptsNoValue(n.options[i])
      [] OTHER -> FALSE

\* C11: the isOptional flag is true for every field that accepts 'no value':
\* an Optional/Nullable layer anywhere in the wrapper chain (also beneath a
\* default or an effects wrapper), a .default(), or an empty-string literal
\* reachable through a union.
C11_OptionalFlagCoversNoValue ==
    AcceptsNoValue(schema) => fieldInfo.isOptional

\* n without its outer stack of Optional, Nullable, default and effects layers
RECURSIVE StripWrappers(_)
StripWrappers(n) ==
    CASE n.kind \in {"ZodOptional", "ZodNullable", "ZodDefault"} ->
            StripWrappers(n.innerType)
      [] n.kind = "ZodEffects" -> StripWrappers(n.schema)
      [] OTHER -> n

\* option i of union u does not unwrap to a literal
UnwrapsToNonLiteral(u, i) == unwrapSchema(u.options[i]).kind # "ZodLiteral"

\* C12: for a union, directly or beneath wrappers, unwrapSchema returns the
\* unwrapped form of the first option in declaration order whose unwrapped
\* form is not a literal, and the field's base kind is that option's.
C12_FirstNonLiteralOptionWins ==
    LET u == StripWrappers(schema)
    IN  (/\ u.kind = "ZodUnion"
         /\ \E i \in 1..Len(u.options) : UnwrapsToNonLiteral(u, i))
        => LET first == CHOOSE i \in 1..Len(u.options) :
                            /\ UnwrapsToNonLiteral(u, i)
                            /\ \A j \in 1..(i - 1) : ~UnwrapsToNonLiteral(u, j)
           IN  /\ unwrapSchema(schema) = unwrapSchema(u.options[first])
               /\ fieldInfo.baseType = getZodFieldInfo(u.options[first]).baseType

\* a nullable union whose first option is a literal and whose second is a number
C12_Witness ==
    /\ schema = ZodNullable(ZodUnion(<<ZodLiteral(EmptyString), ZodNumber>>))
    /\ fieldInfo.baseType = "number"

\* C13: unwrapSchema is idempotent, also on unions whose options are all
\* literals and on unions nested inside unions.
C13_UnwrapIdempotent ==
    unwrapSchema(unwrapSchema(schema)) = unwrapSchema(schema)

\* a union whose first option is an all-literal union: that inner union is
\* what unwrapSchema returns
C13_Witness ==
    /\ schema = ZodUnion(<<ZodUnion(<<ZodLiteral(EmptyString), ZodLiteral(EmptyString)>>),
                           ZodString({})>>)
    /\ unwrapSchema(schema)
         = ZodUnion(<<ZodLiteral(EmptyString), ZodLiteral(EmptyString)>>)

SchemaFieldBaseType ==
    {"string", "number", "boolean", "enum", "array", "date", "unknown"}

\* C14: the base kind is one of string, number, boolean, enum, array, date,
\* unknown, and it is unknown for every shape that is none of the first six.
C14_BaseKindDefined ==
    /\ fieldInfo.baseType \in SchemaFieldBaseType
    /\ unwrapSchema(schema).kind
          \notin {"ZodString", "ZodNumber", "ZodBoolean", "ZodEnum", "ZodArray", "ZodDate"}
       => fieldInfo.baseType = "unknown"

\* an optional object field is classified unknown
C14_Witness ==
    /\ schema = ZodOptional(ZodObject)
    /\ fieldInfo.baseType = "unknown"

\* C15: a classification carries an element classification exactly when its
\* base kind is array, and for an Array node it is the classification of the
\* array's element schema.
C15_ElementClassificationIffArray ==
    /\ ("arrayElementInfo" \in DOMAIN fieldInfo) <=> (fieldInfo.baseType = "array")
    /\ schema.kind = "ZodArray"
       => /\ "arrayElementInfo" \in DOMAIN fieldInfo
          /\ fieldInfo.arrayElementInfo = getZodFieldInfo(schema.element)

\* C16: a stack of Optional, Nullable, default and effects layers around a
\* node leaves its base kind, email flag and enum values as they are; an
\* email string inside Optional(Nullable(...)) is a string, isEmail and
\* isOptional.
C16_WrappersKeepClassification ==
    /\ LET core == getZodFieldInfo(StripWrappers(schema))
       IN  /\ fieldInfo.baseType = core.baseType
           /\ fieldInfo.isEmail = core.isEmail
           /\ fieldInfo.enumValues = core.enumValues
    /\ schema = ZodOptional(ZodNullable(ZodString({"email"})))
       => /\ fieldInfo.baseType = "string"
          /\ fieldInfo.isEmail
          /\ fieldInfo.isOptional

\* an enum under default, effects and optional layers keeps its values
C16_Witness ==
    /\ schema = ZodOptional(ZodEffects(ZodDefault(StatusEnum)))
    /\ fieldInfo.baseType = "enum"
    /\ fieldInfo.enumValues = Some(<<"active", "inactive">>)

\* C17 as stated: the add action appends one element at the end, the
\* default of a standalone field of the element's base kind ('' for string,
\* null for number, false for boolean, undefined for enum).
C17_Original ==
    (/\ arrayEvent.op = "add"
     /\ arrayElementInfo.baseType \in {"string", "number", "boolean", "enum"})
    => arrayValue = Append(arrayEvent.before, synthesize(arrayElementInfo, None))

\* what the add button of the list renderer appends
ListDefault(info) ==
    CASE info.baseType = "string"  -> EmptyString
      [] info.baseType = "number"  -> Zero
      [] info.baseType = "boolean" -> JsFalse
      [] info.baseType = "enum" /\ info.enumValues # None ->
            JsEnumValue(Head(The(info.enumValues)))
      [] OTHER -> EmptyString

\* C17, amended: the add button of the list renderer appends exactly one
\* element at the end: '' for string, 0 for number, false for boolean, the
\* first enum value for enum ('' when it has none) and '' for any other
\* kind.  The add-control of the chips renderer appends the trimmed text that
\* was typed (as a number for number elements), and nothing when that text is
\* empty or is not a number.
C17_Amended ==
    /\ arrayEvent.op = "add"
       => arrayValue = Append(arrayEvent.before, ListDefault(arrayElementInfo))
    /\ arrayEvent.op = "handleAdd"
       => LET typed == Trim(arrayEvent.input)
              digits == \A i \in 1..Len(typed) : IsDigit(typed[i])
          IN  arrayValue
                = IF typed = <<>> THEN arrayEvent.before
                  ELSE IF arrayElementInfo.baseType # "number"
                  THEN Append(arrayEvent.before, JsString(typed))
                  ELSE IF digits
                  THEN Append(arrayEvent.before, JsNumber(DigitsValue(typed)))
                  ELSE arrayEvent.before

\* the add button appends 0 to an array of numbers
C17_Witness ==
    /\ arrayEvent.op = "add"
    /\ arrayElementInfo.baseType = "number"
    /\ arrayEvent.before = <<JsNumber(7)>>
    /\ arrayValue = <<JsNumber(7), Zero>>

\* C18: removing index k from a value of length n leaves a sequence of
\* length n-1 in which the elements before k keep their positions and the
\* elements after k each move down by one, none of them changed.
C18_RemoveShiftsDown ==
    arrayEvent.op = "remove"
    => LET before == arrayEvent.before
           k == arrayEvent.index
       IN  /\ Len(arrayValue) = Len(before) - 1
           /\ \A i \in 1..Len(arrayValue) :
                 arrayValue[i] = IF i < k THEN before[i] ELSE before[i + 1]

\* the first of two equal elements is removed; the other one stays
C18_Witness ==
    /\ arrayEvent.op = "remove"
    /\ arrayEvent.before = <<EmptyString, Text, EmptyString>>
    /\ arrayEvent.index = 1
    /\ arrayValue = <<Text, EmptyString>>

\* C19: for an array of enum elements the add-control of the chips renderer
\* offers exactly the enum options (or the override's options) whose value
\* is not in the sequence.
C19_OffersUnselectedOptions ==
    (arrayRenderer = "chips" /\ ArrayRendered /\ arrayElementInfo.baseType = "enum")
    => LET all == IF arrayOptions # None THEN The(arrayOptions)
                  ELSE IF arrayElementInfo.enumValues # None
                  THEN [i \in 1..Len(The(arrayElementInfo.enumValues)) |->
                          [label |-> The(arrayElementInfo.enumValues)[i],
                           value |-> JsEnumValue(The(arrayElementInfo.enumValues)[i])]]
                  ELSE <<>>
           offered == {offeredOptions[j] : j \in 1..Len(offeredOptions)}
           present == {arrayValue[j] : j \in 1..Len(arrayValue)}
       IN  /\ offered = {all[i] : i \in {i \in 1..Len(all) : all[i].value \notin present}}
           /\ Len(offeredOptions) = Cardinality(offered)

\* 'active' is selected: only 'inactive' is offered
C19_Witness ==
    /\ arrayRenderer = "chips"
    /\ arrayElementInfo = getZodFieldInfo(StatusEnum)
    /\ arrayOptions = None
    /\ arrayValue = <<JsEnumValue("active")>>
    /\ offeredOptions = <<[label |-> "inactive", value |-> JsEnumValue("inactive")]>>
    /\ arrayEvent.op = "select"

\* the object beneath the refine() / superRefine() layers
RECURSIVE InnerObject(_)
InnerObject(n) == IF n.kind = "ZodEffects" THEN InnerObject(n.schema) ELSE n

\* C20: an object under refine() / superRefine() layers is treated like the
\* object: getZodShape returns the object's field mapping, and every field
\* of the object is classified, given a default and rendered.
C20_RefinedObjectKeepsShape ==
    mounted =>
        /\ schemaShape = InnerObject(formSchema).shape
        /\ DOMAIN InnerObject(formSchema).shape \subseteq DOMAIN formValues
        /\ formEvent.op = "mount"
           => /\ formEvent.fieldKeys = DOMAIN InnerObject(formSchema).shape
              /\ DOMAIN formEvent.fieldInfoMap = DOMAIN InnerObject(formSchema).shape

\* the latest step was a submit attempt
SubmitAttempt == formEvent.op \in {"submit", "invalid", "noHandler"}

\* C21: on a submit attempt onSubmit is invoked (one more onSubmit promise is
\* in flight) only if validation passed, and then with exactly
\* applyEmptyValueOverrides(values, overrides); an attempt that fails
\* validation invokes no onSubmit.
C21_SubmitOnlyValidNormalised ==
    [][/\ pendingSubmits' > pendingSubmits
          => /\ formEvent'.op = "submit"
             /\ formEvent'.valid
             /\ formEvent'.onSubmitArg = applyEmptyValueOverrides(formValues, overrides)
       /\ (SubmitAttempt' /\ ~formEvent'.valid)
          => /\ pendingSubmits' = pendingSubmits
             /\ "onSubmitArg" \notin DOMAIN formEvent']_vars

\* valid values with a provided null under emptyAsZero: onSubmit was invoked
\* with 0 in its place
C21_Witness ==
    /\ formEvent.op = "submit"
    /\ formEvent.valid
    /\ pendingSubmits = 1
    /\ OverrideOf(overrides, PrimaryField)
         = Some(FieldConfig(None, FALSE, FALSE, TRUE, FALSE))
    /\ formValues[PrimaryField] = JsNull
    /\ formEvent.onSubmitArg[PrimaryField] = Zero
    /\ formEvent.onSubmitArg[SecondaryField] = formValues[SecondaryField]

\* the types SetupSnowFormOptions.components documents as essential
EssentialTypes ==
    {"text", "email", "password", "textarea", "select", "checkbox", "number", "date"}

\* the types options.components registers a component for
GivenTypes(options) ==
    IF options = None \/ The(options).components = None THEN {}
    ELSE LET components == The(The(options).components)
         IN  {components[i][1] : i \in {j \in 1..Len(components) :
                                           components[j][2] # None}}

\* C22: a setupSnowForm call that configures the library (isSetup goes from
\* false to true) logs a warning when the components it is given do not cover
\* the essential types text, email, password, textarea, select, checkbox,
\* number and date.
C22_WarnsOnMissingEssentials ==
    [][(~isSetup /\ isSetup' /\ ~(EssentialTypes \subseteq GivenTypes(lastCall'.options)))
        => lastCall'.warned]_vars

\* C23: renderField called with a name that is not a field of the schema
\* renders nothing for that name and warns, and the other names of the same
\* call are rendered as they are on their own.
C23_UnknownFieldRendersNothing ==
    formEvent.op = "render"
    => \A i \in 1..Len(formEvent.keys) :
          IF formEvent.keys[i] \in DOMAIN schemaShape
          THEN formEvent.fields[i] = renderField(<<formEvent.keys[i]>>)[1]
          ELSE /\ formEvent.fields[i].element = "null"
               /\ formEvent.fields[i].warned

\* the callback was called by the latest step, with these arguments
Ran(fn, args) ==
    \E i \in 1..Len(formEvent.calls) : formEvent.calls[i] = Call(fn, args)
\* the callback was called by the latest step
RanAny(fn) ==
    \E i \in 1..Len(formEvent.calls) : formEvent.calls[i].fn = fn

\* C24: when a submission settles, the outcome callback of its outcome runs
\* (if it is passed): onSuccess with the response if onSubmit resolved,
\* onSubmitError with the manual-error setter and the error if it rejected;
\* never both for the same submission.
C24_ExactlyOneOutcome ==
    formEvent.op = "settled"
    => /\ (formEvent.outcome = "resolved" /\ props.onSuccess)
          => Ran("onSuccess", <<"response">>)
       /\ (formEvent.outcome = "rejected" /\ props.onSubmitError)
          => Ran("onSubmitError", <<"setManualFormErrors", "rejection">>)
       /\ ~(RanAny("onSuccess") /\ RanAny("onSubmitError"))

\* the value C25 says is stored when a control emits `emitted`
ClaimedStored(override, emitted) ==
    IF emptyAsNull(override) /\ emitted = EmptyString THEN JsNull
    ELSE IF emptyAsZero(override) /\ emitted \in {EmptyString, JsNull, JsUndefined}
    THEN Zero
    ELSE emitted

\* the values each directive converts on change, and what it converts them to
ConvertedOnChange(override, emitted) ==
    IF emptyAsNull(override) /\ emitted \in {EmptyString, JsUndefined} THEN JsNull
    ELSE IF emptyAsUndefined(override) /\ emitted \in {EmptyString, JsNull}
    THEN JsUndefined
    ELSE IF emptyAsZero(override) /\ emitted \in {EmptyString, JsNull, JsUndefined}
    THEN Zero
    ELSE emitted

\* C25 as stated: when a control reports a change, the stored value is null
\* if the override sets emptyAsNull and the control emitted '', 0 if it sets
\* emptyAsZero and the control emitted '', null or undefined, and otherwise
\* exactly the emitted value.
C25_Original ==
    formEvent.op = "change"
    => formValues[formEvent.name]
         = ClaimedStored(OverrideOf(overrides, formEvent.name), formEvent.emitted)

\* C25, amended: the stored value is null if the override sets emptyAsNull
\* and the control emitted '' or undefined; otherwise undefined if it sets
\* emptyAsUndefined and the control emitted '' or null; otherwise 0 if it sets
\* emptyAsZero and the control emitted '', null or undefined; otherwise
\* exactly the emitted value.
C25_Amended ==
    formEvent.op = "change"
    => /\ formEvent.stored
            = ConvertedOnChange(OverrideOf(overrides, formEvent.name), formEvent.emitted)
       /\ formValues[formEvent.name] = formEvent.stored

\* a control emitted '' under emptyAsUndefined alone: undefined is stored
C25_Witness ==
    /\ formEvent.op = "change"
    /\ formEvent.name = PrimaryField
    /\ formEvent.emitted = EmptyString
    /\ OverrideOf(overrides, PrimaryField)
         = Some(FieldConfig(None, FALSE, TRUE, FALSE, FALSE))
    /\ formValues[PrimaryField] = JsUndefined

\* the submit button of the latest render is disabled while the fetch is
\* pending and after it failed
SubmitDisabledUnlessFetched ==
    (formEvent.op = "render" /\ fetchPromise \in {"pending", "rejected"})
    => formEvent.submitButton.disabled

\* C26 as stated: while fetchDefaultValues is pending every rendered field
\* and the submit button are disabled, and the submit button is enabled
\* neither while the fetch is pending nor after it failed.
C26_Original ==
    /\ SubmitDisabledUnlessFetched
    /\ (formEvent.op = "render" /\ fetchPromise = "pending")
       => \A i \in 1..Len(formEvent.fields) :
             formEvent.fields[i].element # "null"
             => formEvent.fields[i].disabled = Some(TRUE)

\* C26, amended: the same, for the fields rendered through a component; a
\* hidden input and a custom render function are handed no disabled flag.
C26_Amended ==
    /\ SubmitDisabledUnlessFetched
    /\ (formEvent.op = "render" /\ fetchPromise = "pending")
       => \A i \in 1..Len(formEvent.fields) :
             formEvent.fields[i].element = "control"
             => formEvent.fields[i].disabled = Some(TRUE)

\* a render while the fetch is pending: the control of the secondary field
\* and the submit button are disabled
C26_Witness ==
    /\ formEvent.op = "render"
    /\ fetchPromise = "pending"
    /\ formEvent.keys = <<PrimaryField, SecondaryField>>
    /\ formEvent.fields[2].element = "control"
    /\ formEvent.fields[2].disabled = Some(TRUE)
    /\ formEvent.submitButton.disabled
    /\ ~isSubmitting

\* C27: when fetchDefaultValues settles after the form was unmounted, the
\* form values, isFetchingDefaults and hasFetchError stay as they are.
C27_LateFetchIgnored ==
    [][(unmounted /\ fetchPromise = "pending" /\ fetchPromise' # "pending")
        => UNCHANGED <<formValues, isFetchingDefaults, hasFetchError>>]_vars

\* the fetch resolved after the unmount: the fetching flag was never cleared
C27_Witness ==
    /\ unmounted
    /\ formEvent.op = "fetched"
    /\ fetchPromise = "resolved"
    /\ isFetchingDefaults
    /\ ~hasFetchError
    /\ formValues = initializeDefaultValues(schemaShape, providedValues, overrides)

\* the override combines emptyAsZero with emptyAsNull or emptyAsUndefined
ZeroCombined(override) ==
    emptyAsZero(override) /\ (emptyAsNull(override) \/ emptyAsUndefined(override))

\* C28 as stated: applyEmptyValueOverrides is idempotent for every value map
\* and every combination of directives: applied to what onSubmit received,
\* with the same overrides, it changes nothing.
C28_Original ==
    Submitted
    => applyEmptyValueOverrides(formEvent.onSubmitArg, overrides) = formEvent.onSubmitArg

\* C28, amended: applyEmptyValueOverrides is idempotent for every value map
\* and every overrides map in which no field combines emptyAsZero with
\* emptyAsNull or emptyAsUndefined.
C28_Amended ==
    (/\ Submitted
     /\ \A k \in DOMAIN overrides : ~ZeroCombined(OverrideOf(overrides, k)))
    => applyEmptyValueOverrides(formEvent.onSubmitArg, overrides) = formEvent.onSubmitArg

\* a blank string was normalised to null under emptyAsNull alone, and a
\* second application leaves the null
C28_Witness ==
    /\ Submitted
    /\ OverrideOf(overrides, PrimaryField)
         = Some(FieldConfig(None, TRUE, FALSE, FALSE, FALSE))
    /\ formValues[PrimaryField] = Blank
    /\ formEvent.onSubmitArg[PrimaryField] = JsNull
    /\ applyEmptyValueOverrides(formEvent.onSubmitArg, overrides)[PrimaryField] = JsNull

\* the form values are still the ones SnowForm computed when it mounted
Untouched ==
    formValues = initializeDefaultValues(schemaShape, providedValues, overrides)

\* emptyAsZero set on a field whose synthesized default is '', null or
\* undefined: every base kind but number (default 0) and boolean (false)
ZeroOnNonNumber(k) ==
    /\ emptyAsZero(OverrideOf(overrides, k))
    /\ getZodFieldInfo(schemaShape[k]).baseType \notin {"number", "boolean"}

\* C29 as stated: for every field kind and every override with at most one
\* directive, an untouched form submits the synthesized default unchanged.
C29_Original ==
    (Submitted /\ Untouched)
    => \A k \in (DOMAIN schemaShape) \ (DOMAIN providedValues) :
          NumberOfDirectives(OverrideOf(overrides, k)) <= 1
          => formEvent.onSubmitArg[k] = formValues[k]

\* C29, amended: the same, except for emptyAsZero on a field that is neither
\* a number nor a boolean.
C29_Amended ==
    (Submitted /\ Untouched)
    => \A k \in (DOMAIN schemaShape) \ (DOMAIN providedValues) :
          (/\ NumberOfDirectives(OverrideOf(overrides, k)) <= 1
           /\ ~ZeroOnNonNumber(k))
          => formEvent.onSubmitArg[k] = formValues[k]

\* an untouched number field under emptyAsZero alone submits its default 0
C29_Witness ==
    /\ Submitted
    /\ Untouched
    /\ PrimaryField \notin DOMAIN providedValues
    /\ getZodFieldInfo(schemaShape[PrimaryField]).baseType = "number"
    /\ OverrideOf(overrides, PrimaryField)
         = Some(FieldConfig(None, FALSE, FALSE, TRUE, FALSE))
    /\ formEvent.onSubmitArg[PrimaryField] = Zero

\* no value occurs twice in the sequence
NoDuplicates(value) ==
    \A i, j \in 1..Len(value) : value[i] = value[j] => i = j

\* every element of the sequence is the value of an option of the list
AllOptionValues(value) ==
    \A i \in 1..Len(value) :
       \E j \in 1..Len(allOptions(arrayElementInfo, arrayOptions)) :
          allOptions(arrayElementInfo, arrayOptions)[j].value = value[i]

\* the chips renderer of an enum array performs an add or a remove
EnumAddOrRemove ==
    /\ arrayRenderer = "chips" /\ ArrayRendered
    /\ arrayElementInfo.baseType = "enum"
    /\ arrayEvent'.op \in {"select", "remove"}
    /\ arrayEvent'.before = arrayValue

\* C30 as stated: from a sequence without duplicates, an add or a remove of
\* the option-filtering renderer leaves a sequence without duplicates whose
\* elements are all values of the option list.
C30_Original ==
    [][(EnumAddOrRemove /\ NoDuplicates(arrayValue))
        => (NoDuplicates(arrayValue') /\ AllOptionValues(arrayValue'))]_vars

\* C30, amended: from a sequence without duplicates whose elements are all
\* values of the option list, an add or a remove of the option-filtering
\* renderer leaves such a sequence; hence so does every sequence of adds and
\* removes.
C30_Amended ==
    [][(EnumAddOrRemove /\ NoDuplicates(arrayValue) /\ AllOptionValues(arrayValue))
        => (NoDuplicates(arrayValue') /\ AllOptionValues(arrayValue'))]_vars

\* both options were added, one after the other, and the add-control has no
\* option left to offer
C30_Witness ==
    /\ arrayRenderer = "chips" /\ ArrayRendered
    /\ arrayElementInfo.baseType = "enum"
    /\ arrayOptions # None
    /\ arrayEvent.op = "select"
    /\ arrayEvent.before = <<JsEnumValue("archived")>>
    /\ arrayValue = <<JsEnumValue("archived"), JsEnumValue("active")>>
    /\ offeredOptions = <<>>

=============================================================================
